---- MODULE Spec2Model ----
(***************************************************************************)
(* Task-orchestration engine of starlight-form-agent                       *)
(* (src/lib/agentic-workflow.ts): the ContextManager (shared context       *)
(* store), the Planner / Reviewer / Researcher / Executor agents and the   *)
(* Orchestrator's run loop; and the single-agent loop of                   *)
(* src/lib/agent-loop.ts (createAgentContext, executeAction, runAgentLoop),*)
(* whose AgentContext objects live in the heap `agents`, with the POST     *)
(* handler of src/app/api/agent/route.ts that keeps them per session.      *)
(*                                                                         *)
(* Task objects live in a heap (ctx.tasks); currentPlan.tasks,             *)
(* pendingTasks and completedTasks hold references (heap indices), as the  *)
(* JavaScript arrays hold references to shared Task objects.               *)
(* Not modelled: description, priority, timestamps and generated ids of    *)
(* tasks, memory items and history entries; the values logged in history   *)
(* entries other than the Task objects they refer to; console output.      *)
(* Time: `now` is Date.now() - startTime; it advances only while a         *)
(* capability call (reasoning or automation) is awaited.                   *)
(***************************************************************************)
EXTENDS Integers, Sequences, FiniteSets, TLC

VARIABLES
    config,      \* Orchestrator.config (WorkflowConfig)
    ctx,         \* ContextManager.context (SharedContext) with the task heap
    messages,    \* Orchestrator.messages
    pc,          \* position of run()
    iteration,   \* run(): let iteration
    retryCount,  \* run(): let retryCount
    task,        \* run(): const task (heap reference, 0 = none)
    execResult,  \* run(): const execResult
    now,         \* elapsed wall-clock time since startTime
    result,      \* the WorkflowResult run() returned
    agents,      \* agent-loop.ts: the AgentContext objects created so far
    loop,        \* agent-loop.ts: the runAgentLoop call in progress
    agentContexts, \* api/agent/route.ts: the Map of session ids to AgentContext objects
    obs          \* observations of the run (history variables, not program state)

vars == <<config, ctx, messages, pc, iteration, retryCount, task, execResult,
          now, result, agents, loop, agentContexts, obs>>

----------------------------------------------------------------------------
(* Bounds of the model *)

MaxTasks == 2          \* tasks in one parsed plan
MaxIterations == 3     \* largest config.maxIterations explored
MaxRetryLimit == 1     \* largest config.retryLimit explored
MaxClock == 1          \* largest elapsed time / config.timeout explored

----------------------------------------------------------------------------
(* Generic helpers for JavaScript array operations *)

\* Array.prototype.findIndex over the elements' test results (hit[i] tells
\* whether element i passes the test), 1-based; 0 stands for -1
FindIndex(hit) ==
    IF \E i \in 1..Len(hit) : hit[i]
    THEN CHOOSE i \in 1..Len(hit) : hit[i] /\ \A j \in 1..(i - 1) : ~hit[j]
    ELSE 0

\* Array.prototype.splice(idx, 1)
RemoveAt(s, i) == SubSeq(s, 1, i - 1) \o SubSeq(s, i + 1, Len(s))

\* Array.prototype.filter over the elements' test results
Filter(s, hit) ==
    LET kept == SelectSeq([i \in 1..Len(s) |-> i], LAMBDA i : hit[i])
    IN  [j \in 1..Len(kept) |-> s[kept[j]]]

Range(s) == {s[i] : i \in 1..Len(s)}

\* Object.assign(target, updates) / { ...target, ...updates }
Assign(target, updates) ==
    [f \in DOMAIN target |-> IF f \in DOMAIN updates THEN updates[f] ELSE target[f]]

----------------------------------------------------------------------------
(* Values *)

TaskStatus == {"pending", "in_progress", "needs_review", "approved", "rejected",
               "completed", "failed"}

\* Task.result: undefined, or a TaskResult {success, data, reviewNotes?}
NoResult == [defined |-> FALSE, success |-> FALSE, reviewNotes |-> FALSE]
TaskResult(success, notes) == [defined |-> TRUE, success |-> success, reviewNotes |-> notes]

\* `task-${idx}` (createPlan) and `task-r-${idx}` (revisePlan); idx is 0-based
TaskId(prefix, idx) == <<prefix, idx>>

\* a planner that hands out tasks it has approved itself
NewTaskApproved(prefix, idx) ==
    [id |-> TaskId(prefix, idx), status |-> "approved", result |-> NoResult]

NewTask(prefix, idx) ==
    [id |-> TaskId(prefix, idx), status |-> "pending", result |-> NoResult]

NoPlan == [defined |-> FALSE, tasks |-> <<>>]

\* new ContextManager(goal)
InitContext ==
    [ tasks          |-> <<>>,
      currentPlan    |-> NoPlan,
      completedTasks |-> <<>>,
      pendingTasks   |-> <<>>,
      memory         |-> <<>>,
      state          |-> [isLoggedIn |-> FALSE, currentPage |-> "undefined",
                          selectedCarer |-> "undefined"],
      history        |-> <<>> ]

\* no runAgentLoop call is in progress
\* session ids: the one a client chooses, `session_${Date.now()}`, and none
\* (the request has no sessionId member)
NoId == <<"none", 0>>
SessionIds == {<<"client", 0>>} \cup {<<"session", t>> : t \in 0..MaxClock}

\* new Map(): no key is present (0: get returns undefined)
NoSessions == [id \in SessionIds |-> 0]

NoLoop == [context |-> 0, iteration |-> 0, maxIterations |-> 0]

----------------------------------------------------------------------------
(* ContextManager *)

\* addHistory that keeps only the latest entry
addHistoryLatestOnly(c, agent, action, held) ==
    [c EXCEPT !.history = <<[agent |-> agent, action |-> action, held |-> held]>>]

\* held: the Task objects the logged input / output refers to (the entry keeps
\* references to them, not copies); empty for values built for the entry
addHistory(c, agent, action, held) ==
    [c EXCEPT !.history = Append(@, [agent |-> agent, action |-> action, held |-> held])]

\* updateState that does not spread the current state into the new one
updateStateNoMerge(c, updates) ==
    addHistory([c EXCEPT !.state = Assign(InitContext.state, updates)],
               "orchestrator", "state_update", <<>>)

updateState(c, updates) ==
    addHistory([c EXCEPT !.state = Assign(@, updates)], "orchestrator", "state_update", <<>>)

\* setMemory that never replaces an existing item
setMemoryAlwaysPush(c, key, value, source) ==
    [c EXCEPT !.memory = Append(@, [key |-> key, value |-> value, source |-> source])]

setMemory(c, key, value, source) ==
    LET existing == FindIndex([i \in 1..Len(c.memory) |-> c.memory[i].key = key])
        item == [key |-> key, value |-> value, source |-> source]
    IN  IF existing > 0
        THEN [c EXCEPT !.memory[existing] = item]
        ELSE [c EXCEPT !.memory = Append(@, item)]

\* the item found by memory.find (?.value is taken by getMemory)
getMemoryItems(c, key) == Filter(c.memory, [i \in 1..Len(c.memory) |-> c.memory[i].key = key])

getMemory(c, key) ==
    LET found == getMemoryItems(c, key)
    IN  IF found = <<>> THEN "undefined" ELSE Head(found).value

setPlan(c, planTasks) ==
    [c EXCEPT !.currentPlan = [defined |-> TRUE, tasks |-> planTasks],
              !.pendingTasks = planTasks]

\* updateTask that also looks for the task in completedTasks
updateTaskAnyCollection(c, taskId, updates) ==
    LET all == c.pendingTasks \o c.completedTasks
        idx == FindIndex([i \in 1..Len(all) |-> c.tasks[all[i]].id = taskId])
    IN  IF idx > 0
        THEN [c EXCEPT !.tasks[all[idx]] = Assign(@, updates)]
        ELSE c

\* updateTask that re-queues the task it updates at the end of pendingTasks
updateTaskRequeue(c, taskId, updates) ==
    LET idx == FindIndex([i \in 1..Len(c.pendingTasks) |-> c.tasks[c.pendingTasks[i]].id = taskId])
    IN  IF idx > 0
        THEN [c EXCEPT !.tasks[c.pendingTasks[idx]] = Assign(@, updates),
                       !.pendingTasks = Append(RemoveAt(@, idx), c.pendingTasks[idx])]
        ELSE c

updateTask(c, taskId, updates) ==
    LET idx == FindIndex([i \in 1..Len(c.pendingTasks) |-> c.tasks[c.pendingTasks[i]].id = taskId])
    IN  IF idx > 0
        THEN [c EXCEPT !.tasks[c.pendingTasks[idx]] = Assign(@, updates)]
        ELSE c

\* completeTask that moves the task without writing its status and result
completeTaskKeepStatus(c, taskId, res) ==
    LET idx == FindIndex([i \in 1..Len(c.pendingTasks) |-> c.tasks[c.pendingTasks[i]].id = taskId])
    IN  IF idx > 0
        THEN [c EXCEPT !.pendingTasks = RemoveAt(@, idx),
                       !.completedTasks = Append(@, c.pendingTasks[idx])]
        ELSE c

\* completeTask that leaves the task in pendingTasks
completeTaskNoSplice(c, taskId, res) ==
    LET idx == FindIndex([i \in 1..Len(c.pendingTasks) |-> c.tasks[c.pendingTasks[i]].id = taskId])
    IN  IF idx > 0
        THEN LET ref == c.pendingTasks[idx]
             IN  [c EXCEPT !.tasks[ref] = [@ EXCEPT !.status = "completed", !.result = res],
                           !.completedTasks = Append(@, ref)]
        ELSE c

\* completeTask that splices the head of pendingTasks instead of the task found
completeTaskSpliceHead(c, taskId, res) ==
    LET idx == FindIndex([i \in 1..Len(c.pendingTasks) |-> c.tasks[c.pendingTasks[i]].id = taskId])
    IN  IF idx > 0
        THEN LET ref == c.pendingTasks[idx]
             IN  [c EXCEPT !.tasks[ref] = [@ EXCEPT !.status = "completed", !.result = res],
                           !.completedTasks = Append(@, ref),
                           !.pendingTasks = RemoveAt(@, 1)]
        ELSE c

completeTask(c, taskId, res) ==
    LET idx == FindIndex([i \in 1..Len(c.pendingTasks) |-> c.tasks[c.pendingTasks[i]].id = taskId])
    IN  IF idx > 0
        THEN LET ref == c.pendingTasks[idx]
             IN  [c EXCEPT !.tasks[ref] = [@ EXCEPT !.status = "completed", !.result = res],
                           !.completedTasks = Append(@, ref),
                           !.pendingTasks = RemoveAt(@, idx)]
        ELSE c

\* getNextTask that selects pending tasks only
getNextTaskPendingOnly(c) ==
    LET idx == FindIndex([i \in 1..Len(c.pendingTasks) |->
                             c.tasks[c.pendingTasks[i]].status = "pending"])
    IN  IF idx > 0 THEN c.pendingTasks[idx] ELSE 0

\* getNextTask that also selects failed tasks
getNextTaskAlsoFailed(c) ==
    LET idx == FindIndex([i \in 1..Len(c.pendingTasks) |->
                             c.tasks[c.pendingTasks[i]].status
                                 \in {"pending", "approved", "failed"}])
    IN  IF idx > 0 THEN c.pendingTasks[idx] ELSE 0

\* getNextTask that waits for the dependencies of a task to be completed
getNextTaskDependencyAware(c) ==
    LET idx == FindIndex([i \in 1..Len(c.pendingTasks) |->
                             /\ c.tasks[c.pendingTasks[i]].status \in {"pending", "approved"}
                             /\ \A d \in c.tasks[c.pendingTasks[i]].dependencies :
                                   \E j \in 1..Len(c.completedTasks) :
                                       c.tasks[c.completedTasks[j]].id = d])
    IN  IF idx > 0 THEN c.pendingTasks[idx] ELSE 0

\* heap reference of the task found, 0 for undefined
getNextTask(c) ==
    LET idx == FindIndex([i \in 1..Len(c.pendingTasks) |->
                             c.tasks[c.pendingTasks[i]].status \in {"pending", "approved"}])
    IN  IF idx > 0 THEN c.pendingTasks[idx] ELSE 0

----------------------------------------------------------------------------
(* Reasoning Capability replies (BaseAgent.think) and their parsing *)

\* A reply of think(): the call rejects ("throw"), or returns text holding no
\* JSON ("nojson"), JSON that JSON.parse rejects ("malformed"), or a JSON value.
Reply(kind, val) == [kind |-> kind, val |-> val]

\* BaseAgent.parseJson: the parsed value, or null (ok = FALSE)
parseJson(response) ==
    IF response.kind = "json"
    THEN [ok |-> TRUE, val |-> response.val]
    ELSE [ok |-> FALSE, val |-> response.val]

\* payloads of the planner: the `tasks` member is absent/falsy, a truthy value
\* that is no array, or a list of n task records
PlanPayload(shape, n) == [tasks |-> shape, n |-> n]
PlannerReplies ==
    {Reply(k, PlanPayload("absent", 0)) : k \in {"throw", "nojson", "malformed", "json"}}
    \cup {Reply("json", PlanPayload("nonarray", 0))}
    \cup {Reply("json", PlanPayload("list", n)) : n \in 0..MaxTasks}

\* payloads of the reviewer: `approved` is true, false or absent (null/undefined)
ReviewerReplies ==
    {Reply(k, [approved |-> "absent"]) : k \in {"throw", "nojson", "malformed", "json"}}
    \cup {Reply("json", [approved |-> a]) : a \in {"true", "false"}}

\* payloads of the executor: {action, params: {carerCode?, formData?}}
ActionPayload(action, carerCode, formData) ==
    [action |-> action, carerCode |-> carerCode, formData |-> formData]

Vocabulary == {"LOGIN", "GET_CARERS", "SELECT_CARER", "NAVIGATE_TO_FORM", "FILL_FORM",
               "SUBMIT_FORM", "GET_STATE"}

----------------------------------------------------------------------------
(* PlannerAgent *)

\* (parsed?.tasks || []).map(...): the number of tasks built, or a TypeError
\* when `tasks` is truthy but has no map method
PlannedTasks(parsed) ==
    IF ~parsed.ok \/ parsed.val.tasks = "absent" THEN [threw |-> FALSE, n |-> 0]
    ELSE IF parsed.val.tasks = "nonarray" THEN [threw |-> TRUE, n |-> 0]
    ELSE [threw |-> FALSE, n |-> parsed.val.n]

\* allocate n fresh Task objects; refs are the new heap indices
AllocTasks(c, prefix, n) ==
    [c EXCEPT !.tasks = @ \o [i \in 1..n |-> NewTask(prefix, i - 1)]]
NewRefs(c, n) == [i \in 1..n |-> Len(c.tasks) + i]

createPlan(c, response) ==
    LET c1 == addHistory(c, "planner", "create_plan", <<>>)
        planned == PlannedTasks(parseJson(response))
    IN  IF response.kind = "throw" \/ planned.threw
        THEN [threw |-> TRUE, ctx |-> c1]
        ELSE [threw |-> FALSE,
              ctx |-> addHistory(setPlan(AllocTasks(c1, "task", planned.n),
                                         NewRefs(c1, planned.n)),
                                 "planner", "plan_created", NewRefs(c1, planned.n))]

\* currentPlan?.tasks.filter(t => t.status === 'completed') || []
CompletedOfPlan(c) ==
    IF c.currentPlan.defined
    THEN Filter(c.currentPlan.tasks,
                [i \in 1..Len(c.currentPlan.tasks) |->
                    c.tasks[c.currentPlan.tasks[i]].status = "completed"])
    ELSE <<>>

revisePlan(c, response) ==
    LET planned == PlannedTasks(parseJson(response))
    IN  IF response.kind = "throw" \/ planned.threw
        THEN [threw |-> TRUE, ctx |-> c]
        ELSE [threw |-> FALSE,
              ctx |-> setPlan(AllocTasks(c, "task-r", planned.n),
                              CompletedOfPlan(c) \o NewRefs(c, planned.n))]

----------------------------------------------------------------------------
(* ReviewerAgent *)

\* a review that rejects when the reply cannot be parsed
ApprovedFailClosed(parsed) == parsed.ok /\ parsed.val.approved = "true"

\* parsed?.approved ?? true
Approved(parsed) ==
    IF parsed.ok /\ parsed.val.approved # "absent"
    THEN parsed.val.approved = "true"
    ELSE TRUE

reviewPlan(response) ==
    IF response.kind = "throw"
    THEN [threw |-> TRUE, approved |-> FALSE]
    ELSE [threw |-> FALSE, approved |-> Approved(parseJson(response))]

\* t is the Task object (heap reference) the Orchestrator passes
reviewTaskResult(c, t, response) ==
    LET c1 == addHistory(c, "reviewer", "review_start", <<>>)
        approved == Approved(parseJson(response))
        c2 == addHistory(c1, "reviewer", "review_complete", <<>>)
    IN  IF response.kind = "throw"
        THEN [threw |-> TRUE, approved |-> FALSE, ctx |-> c1]
        ELSE [threw |-> FALSE, approved |-> approved,
              ctx |-> updateTask(c2, c.tasks[t].id,
                         [status |-> IF approved THEN "approved" ELSE "rejected",
                          result |-> TaskResult(approved, TRUE)])]

----------------------------------------------------------------------------
(* ResearcherAgent *)

\* ctx.completedTasks.slice(-3)
LastThree(s) == SubSeq(s, IF Len(s) > 3 THEN Len(s) - 2 ELSE 1, Len(s))

gatherContext(c, t) ==
    [isLoggedIn |-> c.state.isLoggedIn,
     currentPage |-> c.state.currentPage,
     selectedCarer |-> c.state.selectedCarer,
     carers |-> getMemory(c, "carers"),
     formData |-> "undefined",
     previousResults |-> [i \in 1..Len(LastThree(c.completedTasks)) |->
                             c.tasks[LastThree(c.completedTasks)[i]].result]]

\* a gatherContext that logs its call in the history, as research does
gatherContextLogged(c, t) ==
    [threw |-> FALSE, value |-> gatherContext(c, t),
     ctx |-> addHistory(c, "researcher", "gather_context", <<>>)]

\* the call researcher.gatherContext(task) as a whole: the mapping returned
\* and the context it leaves
gatherContextCall(c, t) == [threw |-> FALSE, value |-> gatherContext(c, t), ctx |-> c]

----------------------------------------------------------------------------
(* ExecutorAgent *)

\* What the Automation Capability does when called: it resolves with a
\* success ("ok": true / a non-empty list / a page state), resolves with a
\* failure ("fail": false / an empty list) or rejects ("throw").
AutomationOutcomes(action) ==
    IF action = "GET_STATE" THEN {"ok", "throw"} ELSE {"ok", "fail", "throw"}

Done(c, success, called) == [ctx |-> c, success |-> success, called |-> called]

\* performAction: the switch over the action vocabulary inside try/catch
performAction(c, action, params, outcome) ==
    CASE action = "LOGIN" ->
            IF outcome = "throw" THEN Done(c, FALSE, TRUE)
            ELSE Done(updateState(c, [isLoggedIn |-> outcome = "ok"]), outcome = "ok", TRUE)
      [] action = "GET_CARERS" ->
            IF outcome = "throw" THEN Done(c, FALSE, TRUE)
            ELSE Done(setMemory(c, "carers",
                                IF outcome = "ok" THEN "[FCC-18]" ELSE "[]", "executor"),
                      outcome = "ok", TRUE)
      [] action = "SELECT_CARER" ->
            IF params.carerCode = "undefined" THEN Done(c, FALSE, FALSE)
            ELSE IF outcome = "ok"
                 THEN Done(updateState(c, [selectedCarer |-> params.carerCode]), TRUE, TRUE)
                 ELSE Done(c, FALSE, TRUE)
      [] action = "NAVIGATE_TO_FORM" ->
            IF outcome = "ok"
            THEN Done(updateState(c, [currentPage |-> "home_visit_form"]), TRUE, TRUE)
            ELSE Done(c, FALSE, TRUE)
      [] action = "FILL_FORM" ->
            IF params.formData = "undefined" THEN Done(c, FALSE, FALSE)
            ELSE Done(setMemory(c, "formData", params.formData, "executor"),
                      outcome = "ok", TRUE)
      [] action = "SUBMIT_FORM" -> Done(c, outcome = "ok", TRUE)
      [] action = "GET_STATE" ->
            IF outcome = "throw" THEN Done(c, FALSE, TRUE)
            ELSE Done(updateState(c, [currentPage |-> "url"]), TRUE, TRUE)
      [] OTHER -> Done(c, FALSE, FALSE)

\* ExecutionResult {success, actions[]} (actions: the number of ExecutedAction
\* records), with the context after the call
\* execute that reports a reply without an action as a success
executeNoActionSucceeds(c, t, response, outcome) ==
    LET c1 == addHistory(c, "executor", "execute_start", <<>>)
        parsed == parseJson(response)
    IN  IF response.kind = "throw"
        THEN [threw |-> TRUE, ctx |-> c1, success |-> FALSE, actions |-> 0, called |-> FALSE]
        ELSE IF ~parsed.ok \/ parsed.val.action = "absent"
        THEN [threw |-> FALSE, ctx |-> c1, success |-> TRUE, actions |-> 0, called |-> FALSE]
        ELSE LET actionResult == performAction(c1, parsed.val.action, parsed.val, outcome)
             IN  [threw |-> FALSE,
                  ctx |-> addHistory(actionResult.ctx, "executor", "execute_complete", <<>>),
                  success |-> actionResult.success,
                  actions |-> 1,
                  called |-> actionResult.called]

execute(c, t, response, outcome) ==
    LET c1 == addHistory(c, "executor", "execute_start", <<>>)
        parsed == parseJson(response)
    IN  IF response.kind = "throw"
        THEN [threw |-> TRUE, ctx |-> c1, success |-> FALSE, actions |-> 0, called |-> FALSE]
        ELSE IF ~parsed.ok \/ parsed.val.action = "absent"
        THEN [threw |-> FALSE, ctx |-> c1, success |-> FALSE, actions |-> 0, called |-> FALSE]
        ELSE LET actionResult == performAction(c1, parsed.val.action, parsed.val, outcome)
             IN  [threw |-> FALSE,
                  ctx |-> addHistory(actionResult.ctx, "executor", "execute_complete", <<>>),
                  success |-> actionResult.success,
                  actions |-> 1,
                  called |-> actionResult.called]

----------------------------------------------------------------------------
(* Orchestrator *)

\* configurations explored ({ ...DEFAULT_CONFIG, ...config }); retryLimit is
\* read only behind `this.config.autoRetry &&`, so the configurations with
\* autoRetry = false are explored with one retryLimit
Configs ==
    {cfg \in [maxIterations : 0..MaxIterations, requireReview : BOOLEAN,
              autoRetry : BOOLEAN, retryLimit : 0..MaxRetryLimit, timeout : 0..MaxClock] :
        cfg.autoRetry \/ cfg.retryLimit = 0}

\* actions the Executor's reasoning call chooses in the runs explored (each with
\* every outcome of the automation call); the other arms of performAction end
\* in the same two results, success or failure, and differ in the state and
\* memory they write
RunActions == {"LOGIN"}
ExecutorReplies ==
    {Reply(k, ActionPayload("absent", "undefined", "undefined")) :
        k \in {"throw", "nojson", "malformed", "json"}}
    \cup {Reply("json", ActionPayload(a, "undefined", "payload")) : a \in RunActions}

\* time a capability call may take; the clock is not advanced further once it
\* is past the deadline (the code reads it only in `elapsed > timeout`)
Ticks == {d \in 0..1 : now + d <= MaxClock /\ now + d <= config.timeout + 1}

NoExecResult == [success |-> FALSE, actions |-> 0]

NoWorkflowResult ==
    [returned |-> FALSE, success |-> FALSE, completedTasks |-> 0, totalTasks |-> 0,
     error |-> FALSE, output |-> FALSE, history |-> <<>>]

\* success taken as "no runnable task is left"
WorkflowSuccessNoRunnable(c) == getNextTask(c) = 0

\* success that also requires some completed task
WorkflowSuccessNeedsWork(c) == Len(c.pendingTasks) = 0 /\ Len(c.completedTasks) > 0

\* finalCtx.pendingTasks.length === 0
WorkflowSuccess(c) == Len(c.pendingTasks) = 0

\* the WorkflowResult of a normal return
CompiledResult(c) ==
    [returned |-> TRUE, success |-> WorkflowSuccess(c),
     completedTasks |-> Len(c.completedTasks),
     totalTasks |-> IF c.currentPlan.defined THEN Len(c.currentPlan.tasks) ELSE 0,
     error |-> FALSE, output |-> TRUE, history |-> c.history]

\* the WorkflowResult built by the catch block
ErrorResult(c) ==
    [returned |-> TRUE, success |-> FALSE,
     completedTasks |-> Len(c.completedTasks),
     totalTasks |-> IF c.currentPlan.defined THEN Len(c.currentPlan.tasks) ELSE 0,
     error |-> TRUE, output |-> FALSE, history |-> c.history]

\* a try block that opens only at the execution loop
TryStepsFromLoop == {"loop", "execute", "review", "finish", "compile"}

\* the steps of run() that lie inside its try block
TrySteps == {"create_plan", "review_plan", "revise_plan", "loop", "execute",
             "review", "finish", "compile"}

\* loop test off by one
LoopConditionOffByOne(cfg, i) == i <= cfg.maxIterations

\* while (iteration < this.config.maxIterations)
LoopCondition(cfg, i) == i < cfg.maxIterations

\* retry test off by one
ShouldRetryOffByOne(cfg, rc) == cfg.autoRetry /\ rc <= cfg.retryLimit

\* this.config.autoRetry && retryCount < this.config.retryLimit
ShouldRetry(cfg, rc) == cfg.autoRetry /\ rc < cfg.retryLimit

\* timeout test that is never true
TimedOutNever(cfg, elapsed) == FALSE

\* Date.now() - startTime > this.config.timeout
TimedOut(cfg, elapsed) == elapsed > cfg.timeout

\* a review of every execution result, failed ones included
ReviewsResultAlways(cfg, success) == cfg.requireReview

\* if (this.config.requireReview && execResult.success)
ReviewsResult(cfg, success) == cfg.requireReview /\ success

\* a revision that is followed by another plan review
StepAfterRevisionReviewAgain == "review_plan"

\* where run() continues when revisePlan has returned: "Step 3: Execute tasks
\* in loop"
StepAfterRevision == "loop"

\* sendMessage(from, to, type, content, payload)
\* sendMessage that delivers the message twice
sendMessageTwice(msgs, from, to, type) ==
    msgs \o <<[from |-> from, to |-> to, type |-> type], [from |-> from, to |-> to, type |-> type]>>

sendMessage(msgs, from, to, type) == Append(msgs, [from |-> from, to |-> to, type |-> type])

Refs == 1..(2 * MaxTasks)

InitObs ==
    [attempts      |-> [r \in Refs |-> 0],   \* Executor.execute calls per task object
     rejections    |-> [r \in Refs |-> 0],   \* rejecting reviews per task object
     approved      |-> {},     \* tasks some review approved
     exhausted     |-> {},     \* tasks rejected with no retry left
     failed        |-> {},     \* tasks whose Executor call returned success = false
     writes        |-> <<>>,   \* the status writes, in order, of the latest step
                               \* that wrote a task status
     afterDeadline |-> {},     \* tasks in flight when, or started after, the deadline passed
     created       |-> -1,     \* number of tasks of the plan createPlan returned
     revised       |-> FALSE,  \* revisePlan was called and returned
     reviewPlanCalls |-> 0,    \* calls of Reviewer.reviewPlan
     revisePlanCalls |-> 0,    \* calls of Planner.revisePlan
     planVerdict   |-> "none", \* "approved" / "rejected": what reviewPlan returned
     unparsed      |-> "none", \* "plan" / "task": the review just made got a reply
                               \* that could not be parsed ("none" again once the
                               \* step after the review is taken)
     fault         |-> FALSE,  \* an exception was raised
     exit          |-> "none"] \* how the loop ended: "empty", "cap", "timeout"

\* a status write of updateTask / completeTask to the task object t, as seen
\* in the context c it is applied to
StatusWrite(c, t, status) == [task |-> t, from |-> c.tasks[t].status, to |-> status]

Init ==
    /\ config \in Configs
    /\ ctx = InitContext
    /\ messages = <<>>
    /\ pc = "create_plan"
    /\ iteration = 0
    /\ retryCount = 0
    /\ task = 0
    /\ execResult = NoExecResult
    /\ now = 0
    /\ result = NoWorkflowResult
    /\ agents = <<>>
    /\ agentContexts = NoSessions
    /\ loop = NoLoop
    /\ obs = InitObs

\* An exception raised at the current step with context c: inside the try
\* block it is caught and run() returns the error result; outside it the
\* exception reaches the caller.
Raise(c, seen) ==
    /\ ctx' = c
    /\ obs' = [seen EXCEPT !.fault = TRUE]
    /\ IF pc \in TrySteps
       THEN pc' = "returned" /\ result' = ErrorResult(c)
       ELSE pc' = "propagated" /\ result' = result
    /\ UNCHANGED <<agentContexts, agents, loop, config, messages, iteration, retryCount, task, execResult>>

\* Step 1: const plan = await this.planner.createPlan(ctx.goal)
CreatePlan ==
    /\ pc = "create_plan"
    /\ \E response \in PlannerReplies, d \in Ticks :
         LET out == createPlan(ctx, response)
         IN  /\ now' = now + d
             /\ IF out.threw
                THEN Raise(out.ctx, obs)
                ELSE /\ ctx' = out.ctx
                     /\ obs' = [obs EXCEPT !.created = Len(out.ctx.currentPlan.tasks)]
                     /\ pc' = IF config.requireReview THEN "review_plan" ELSE "loop"
                     /\ UNCHANGED <<agentContexts, agents, loop, config, messages, iteration, retryCount, task,
                                    execResult, result>>

\* Step 2: const planReview = await this.reviewer.reviewPlan(plan)
ReviewPlan ==
    /\ pc = "review_plan"
    /\ \E response \in ReviewerReplies, d \in Ticks :
         LET out == reviewPlan(response)
             seen == [obs EXCEPT !.reviewPlanCalls = @ + 1]
         IN  /\ now' = now + d
             /\ IF out.threw
                THEN Raise(ctx, seen)
                ELSE /\ pc' = IF out.approved THEN "loop" ELSE "revise_plan"
                     /\ obs' = [seen EXCEPT !.unparsed =
                                    IF parseJson(response).ok THEN "none" ELSE "plan",
                                            !.planVerdict =
                                    IF out.approved THEN "approved" ELSE "rejected"]
                     /\ UNCHANGED <<agentContexts, agents, loop, config, ctx, messages, iteration, retryCount, task,
                                    execResult, result>>

\* await this.planner.revisePlan(planReview.feedback)
RevisePlan ==
    /\ pc = "revise_plan"
    /\ \E response \in PlannerReplies, d \in Ticks :
         LET out == revisePlan(ctx, response)
             seen == [obs EXCEPT !.revisePlanCalls = @ + 1]
         IN  /\ now' = now + d
             /\ IF out.threw
                THEN Raise(out.ctx, seen)
                ELSE /\ ctx' = out.ctx
                     /\ obs' = [seen EXCEPT !.revised = TRUE, !.unparsed = "none"]
                     /\ pc' = StepAfterRevision
                     /\ UNCHANGED <<agentContexts, agents, loop, config, messages, iteration, retryCount, task,
                                    execResult, result>>

\* Step 3, head of an iteration: the loop test, getNextTask, gatherContext
\* and the in_progress mark
LoopHead ==
    /\ pc = "loop"
    /\ IF LoopCondition(config, iteration)
       THEN LET t == getNextTask(ctx)
            IN  /\ iteration' = iteration + 1
                /\ IF t = 0
                   THEN /\ pc' = "compile"
                        /\ obs' = [obs EXCEPT !.exit = "empty", !.unparsed = "none"]
                        /\ UNCHANGED <<ctx, task>>
                   ELSE LET taskContext == gatherContext(ctx, t)  \* computed, not used
                        IN  /\ task' = t
                            /\ ctx' = updateTask(ctx, ctx.tasks[t].id,
                                                 [status |-> "in_progress"])
                            /\ pc' = "execute"
                            /\ obs' = [obs EXCEPT !.unparsed = "none",
                                          !.writes = <<StatusWrite(ctx, t, "in_progress")>>]
       ELSE /\ pc' = "compile"
            /\ obs' = [obs EXCEPT !.exit = "cap", !.unparsed = "none"]
            /\ UNCHANGED <<ctx, task, iteration>>
    /\ UNCHANGED <<agentContexts, agents, loop, config, messages, retryCount, execResult, now, result>>

\* const execResult = await this.executor.execute(task)
Execute ==
    /\ pc = "execute"
    /\ \E response \in ExecutorReplies, d \in Ticks :
       \E outcome \in AutomationOutcomes(response.val.action) :
         LET out == execute(ctx, task, response, outcome)
             seen == [obs EXCEPT !.attempts[task] = @ + 1,
                                 !.failed = IF out.threw \/ out.success
                                            THEN @ ELSE @ \cup {task},
                                 !.afterDeadline =
                                     IF now + d > config.timeout THEN @ \cup {task} ELSE @]
         IN  /\ now' = now + d
             /\ IF out.threw
                THEN Raise(out.ctx, seen)
                ELSE /\ ctx' = out.ctx
                     /\ obs' = seen
                     /\ execResult' = [success |-> out.success, actions |-> out.actions]
                     /\ pc' = IF ReviewsResult(config, out.success) THEN "review"
                                                                      ELSE "finish"
                     /\ UNCHANGED <<agentContexts, agents, loop, config, messages, iteration, retryCount, task, result>>

\* const review = await this.reviewer.reviewTaskResult(task, execResult.output)
\* and the retry decision that follows it
ReviewResult ==
    /\ pc = "review"
    /\ \E response \in ReviewerReplies, d \in Ticks :
         LET out == reviewTaskResult(ctx, task, response)
             late == [obs EXCEPT !.afterDeadline =
                                     IF now + d > config.timeout THEN @ \cup {task} ELSE @]
             retry == ~out.approved /\ ShouldRetry(config, retryCount)
             seen == [late EXCEPT !.rejections[task] = IF out.approved THEN @ ELSE @ + 1,
                                  !.approved = IF out.approved THEN @ \cup {task} ELSE @,
                                  !.unparsed = IF parseJson(response).ok
                                               THEN "none" ELSE "task",
                                  !.writes =
                                      <<StatusWrite(ctx, task, out.ctx.tasks[task].status)>>
                                      \o IF retry
                                         THEN <<StatusWrite(out.ctx, task, "pending")>>
                                         ELSE <<>>,
                                  !.exhausted = IF ~out.approved /\ ~retry
                                                THEN @ \cup {task} ELSE @]
         IN  /\ now' = now + d
             /\ IF out.threw
                THEN Raise(out.ctx, late)
                ELSE /\ obs' = seen
                     /\ IF retry
                        THEN /\ retryCount' = retryCount + 1
                             /\ ctx' = updateTask(out.ctx, ctx.tasks[task].id,
                                                  [status |-> "pending"])
                             /\ pc' = "loop"      \* continue
                        ELSE /\ retryCount' = IF out.approved THEN 0 ELSE retryCount
                             /\ ctx' = out.ctx
                             /\ pc' = "finish"
                     /\ UNCHANGED <<agentContexts, agents, loop, config, messages, iteration, task, execResult, result>>

\* "Complete the task" and "Check timeout": the tail of an iteration
Finish ==
    /\ pc = "finish"
    /\ IF execResult.success
       THEN /\ ctx' = completeTask(ctx, ctx.tasks[task].id, TaskResult(TRUE, FALSE))
            /\ messages' = messages
       ELSE /\ ctx' = updateTask(ctx, ctx.tasks[task].id, [status |-> "failed"])
            /\ messages' = sendMessage(messages, "executor", "planner", "error")
    /\ LET seen == [obs EXCEPT !.unparsed = "none",
                                !.writes = <<StatusWrite(ctx, task,
                                                IF execResult.success THEN "completed"
                                                                      ELSE "failed")>>]
       IN  IF TimedOut(config, now)
           THEN pc' = "compile" /\ obs' = [seen EXCEPT !.exit = "timeout"]
           ELSE pc' = "loop" /\ obs' = seen
    /\ UNCHANGED <<agentContexts, agents, loop, config, iteration, retryCount, task, execResult, now, result>>

\* "Compile final results" and return
Compile ==
    /\ pc = "compile"
    /\ result' = CompiledResult(ctx)
    /\ pc' = "returned"
    /\ UNCHANGED <<agentContexts, agents, loop, config, ctx, messages, iteration, retryCount, task, execResult, now, obs>>

Next ==
    \/ CreatePlan
    \/ ReviewPlan
    \/ RevisePlan
    \/ LoopHead
    \/ Execute
    \/ ReviewResult
    \/ Finish
    \/ Compile

Spec == Init /\ [][Next]_vars

\* every step of run() is taken once its awaited call resolves
FairSpec == Spec /\ WF_vars(Next)

----------------------------------------------------------------------------
(* The memory store on its own: any sequence of setMemory / getMemory calls *)

AgentRole == {"orchestrator", "planner", "reviewer", "researcher", "executor"}
MemKeys == {"carers", "formData", "notes"}
MemValues == {"v1", "v2"}
MemSources == {"planner", "executor"}   \* the roles (of AgentRole) that write

MemInit ==
    /\ config = [maxIterations |-> 0, requireReview |-> FALSE, autoRetry |-> FALSE,
                 retryLimit |-> 0, timeout |-> 0]
    /\ ctx = InitContext
    /\ messages = <<>>
    /\ pc = "store"
    /\ iteration = 0
    /\ retryCount = 0
    /\ task = 0
    /\ execResult = NoExecResult
    /\ now = 0
    /\ result = NoWorkflowResult
    /\ agents = <<>>
    /\ agentContexts = NoSessions
    /\ loop = NoLoop
    /\ obs = [last |-> [k \in MemKeys |-> "undefined"],  \* value of the latest write per key
              overwritten |-> {},                        \* keys rewritten with another value
              got |-> [key |-> "none", value |-> "undefined", expected |-> "undefined"]]

SetMemory ==
    /\ pc = "store"
    /\ \E k \in MemKeys, v \in MemValues, source \in MemSources :
         /\ ctx' = setMemory(ctx, k, v, source)
         /\ obs' = [obs EXCEPT !.last[k] = v,
                               !.overwritten =
                                   IF obs.last[k] \notin {"undefined", v} THEN @ \cup {k} ELSE @]
    /\ UNCHANGED <<agentContexts, agents, loop, config, messages, pc, iteration, retryCount, task, execResult, now, result>>

GetMemory ==
    /\ pc = "store"
    /\ \E k \in MemKeys :
         obs' = [obs EXCEPT !.got = [key |-> k, value |-> getMemory(ctx, k),
                                     expected |-> obs.last[k]]]
    /\ UNCHANGED <<agentContexts, agents, loop, config, ctx, messages, pc, iteration, retryCount, task, execResult,
                   now, result>>

MemNext == SetMemory \/ GetMemory

MemSpec == MemInit /\ [][MemNext]_vars

----------------------------------------------------------------------------
(* The Shared Context and the Planner on their own: any sequence of          *)
(* createPlan, revisePlan, updateTask, completeTask, setMemory and          *)
(* getMemory calls (setPlan is called by createPlan and revisePlan, its     *)
(* only callers)                                                             *)

MaxOps == 4            \* calls in one sequence

\* the statuses the callers of updateTask write (run and reviewTaskResult)
UpdateStatuses == {"pending", "in_progress", "approved", "rejected", "failed"}

OpsInit ==
    /\ config = [maxIterations |-> 0, requireReview |-> FALSE, autoRetry |-> FALSE,
                 retryLimit |-> 0, timeout |-> 0]
    /\ ctx = InitContext
    /\ messages = <<>>
    /\ pc = "ops"
    /\ iteration = 0
    /\ retryCount = 0
    /\ task = 0
    /\ execResult = NoExecResult
    /\ now = 0
    /\ result = NoWorkflowResult
    /\ agents = <<>>
    /\ agentContexts = NoSessions
    /\ loop = NoLoop
    /\ obs = [steps |-> 0,        \* calls made so far
              op |-> "none",      \* the latest call
              text |-> FALSE,     \* whether its reasoning call returned a text
              threw |-> FALSE,    \* whether it raised an exception
              found |-> FALSE,    \* whether its target id was in pendingTasks, or its
                                  \* key in memory
              got |-> "none"]     \* what getMemory returned

OpsFrame ==
    UNCHANGED <<agentContexts, agents, loop, config, messages, pc, iteration, retryCount, task, execResult, now, result>>

OpCreatePlan ==
    /\ pc = "ops" /\ obs.steps < MaxOps
    /\ \E response \in PlannerReplies :
         LET out == createPlan(ctx, response)
         IN  /\ ctx' = out.ctx
             /\ obs' = [steps |-> obs.steps + 1, op |-> "createPlan",
                        text |-> response.kind # "throw", threw |-> out.threw, found |-> FALSE,
                        got |-> "none"]
    /\ OpsFrame

OpRevisePlan ==
    /\ pc = "ops" /\ obs.steps < MaxOps
    /\ \E response \in PlannerReplies :
         LET out == revisePlan(ctx, response)
         IN  /\ ctx' = out.ctx
             /\ obs' = [steps |-> obs.steps + 1, op |-> "revisePlan",
                        text |-> response.kind # "throw", threw |-> out.threw, found |-> FALSE,
                        got |-> "none"]
    /\ OpsFrame

OpUpdateTask ==
    /\ pc = "ops" /\ obs.steps < MaxOps
    /\ \E id \in {TaskId(prefix, i) : prefix \in {"task", "task-r"}, i \in 0..(MaxTasks - 1)},
          status \in UpdateStatuses :
         /\ ctx' = updateTask(ctx, id, [status |-> status])
         /\ obs' = [steps |-> obs.steps + 1, op |-> "updateTask",
                    text |-> FALSE, threw |-> FALSE,
                    found |-> \E i \in 1..Len(ctx.pendingTasks) :
                                 ctx.tasks[ctx.pendingTasks[i]].id = id,
                    got |-> "none"]
    /\ OpsFrame

OpCompleteTask ==
    /\ pc = "ops" /\ obs.steps < MaxOps
    /\ \E id \in {TaskId(prefix, i) : prefix \in {"task", "task-r"}, i \in 0..(MaxTasks - 1)} :
         /\ ctx' = completeTask(ctx, id, TaskResult(TRUE, FALSE))
         /\ obs' = [steps |-> obs.steps + 1, op |-> "completeTask",
                    text |-> FALSE, threw |-> FALSE,
                    found |-> \E i \in 1..Len(ctx.pendingTasks) :
                                 ctx.tasks[ctx.pendingTasks[i]].id = id,
                    got |-> "none"]
    /\ OpsFrame

\* this.context.setMemory('carers', carers, 'executor')
OpSetMemory ==
    /\ pc = "ops" /\ obs.steps < MaxOps
    /\ ctx' = setMemory(ctx, "carers", "v1", "executor")
    /\ obs' = [steps |-> obs.steps + 1, op |-> "setMemory", text |-> FALSE,
               threw |-> FALSE, found |-> getMemoryItems(ctx, "carers") # <<>>,
               got |-> "none"]
    /\ OpsFrame

OpGetMemory ==
    /\ pc = "ops" /\ obs.steps < MaxOps
    /\ \E k \in MemKeys :
         obs' = [steps |-> obs.steps + 1, op |-> "getMemory", text |-> FALSE,
                 threw |-> FALSE, found |-> getMemoryItems(ctx, k) # <<>>,
                 got |-> getMemory(ctx, k)]
    /\ ctx' = ctx
    /\ OpsFrame

OpsNext ==
    \/ OpCreatePlan
    \/ OpRevisePlan
    \/ OpUpdateTask
    \/ OpCompleteTask
    \/ OpSetMemory
    \/ OpGetMemory

OpsSpec == OpsInit /\ [][OpsNext]_vars

----------------------------------------------------------------------------
(* getNextTask on its own: applied to any pendingTasks list of tasks with    *)
(* any statuses, priorities and dependencies, and the scheduling of run()    *)
(* over such a list: pick the next task, execute it, settle it               *)

MaxPending == 2        \* tasks in the pendingTasks list

Priorities == {"low", "high"}
Dependencies == {{}, {TaskId("task", 0)}, {TaskId("task", 1)}}

\* a context whose pendingTasks holds n tasks task-0 .. task-(n-1)
PendingContext(n, status, priority, dependencies) ==
    [InitContext EXCEPT
        !.tasks = [i \in 1..n |->
                      [id |-> TaskId("task", i - 1), status |-> status[i],
                       result |-> NoResult, priority |-> priority[i],
                       dependencies |-> dependencies[i]]],
        !.currentPlan = [defined |-> TRUE, tasks |-> [i \in 1..n |-> i]],
        !.pendingTasks = [i \in 1..n |-> i]]

NextInit ==
    /\ config = [maxIterations |-> 0, requireReview |-> FALSE, autoRetry |-> FALSE,
                 retryLimit |-> 0, timeout |-> 0]
    /\ \E n \in 0..MaxPending :
       \E status \in [1..n -> TaskStatus], priority \in [1..n -> Priorities],
          dependencies \in [1..n -> Dependencies] :
           ctx = PendingContext(n, status, priority, dependencies)
    /\ messages = <<>>
    /\ pc = "select"
    /\ iteration = 0
    /\ retryCount = 0
    /\ task = 0
    /\ execResult = NoExecResult
    /\ now = 0
    /\ result = NoWorkflowResult
    /\ agents = <<>>
    /\ agentContexts = NoSessions
    /\ loop = NoLoop
    /\ obs = [called |-> FALSE,   \* getNextTask was called on the context as it is
              got |-> 0,          \* the task it returned
              ran |-> {},         \* the tasks executed so far
              settled |-> {}]     \* the tasks completed or failed so far

\* const task = this.context.getNextTask()
GetNextTask ==
    /\ pc = "select"
    /\ obs' = [obs EXCEPT !.called = TRUE, !.got = getNextTask(ctx)]
    /\ UNCHANGED <<agentContexts, agents, loop, config, ctx, messages, pc, iteration, retryCount, task, execResult,
                   now, result>>

\* updateTask(id, { priority, dependencies })
Reprioritise ==
    /\ pc = "select"
    /\ \E i \in 1..Len(ctx.pendingTasks), priority \in Priorities,
          dependencies \in Dependencies :
         ctx' = updateTask(ctx, ctx.tasks[ctx.pendingTasks[i]].id,
                           [priority |-> priority, dependencies |-> dependencies])
    /\ obs' = [obs EXCEPT !.called = FALSE, !.got = 0]
    /\ UNCHANGED <<agentContexts, agents, loop, config, messages, pc, iteration, retryCount, task, execResult, now, result>>

\* head of an iteration of run(): getNextTask, the in_progress mark, and the
\* start of Executor.execute
RunNext ==
    /\ pc = "select"
    /\ getNextTask(ctx) # 0
    /\ task' = getNextTask(ctx)
    /\ ctx' = updateTask(ctx, ctx.tasks[getNextTask(ctx)].id, [status |-> "in_progress"])
    /\ pc' = "running"
    /\ obs' = [obs EXCEPT !.called = FALSE, !.got = 0, !.ran = @ \cup {getNextTask(ctx)}]
    /\ UNCHANGED <<agentContexts, agents, loop, config, messages, iteration, retryCount, execResult, now, result>>

\* rest of the iteration: the task is completed, marked failed, or reset to
\* pending for a retry
Settle ==
    /\ pc = "running"
    /\ \E outcome \in {"completed", "failed", "pending"} :
         /\ ctx' = IF outcome = "completed"
                   THEN completeTask(ctx, ctx.tasks[task].id, TaskResult(TRUE, FALSE))
                   ELSE updateTask(ctx, ctx.tasks[task].id, [status |-> outcome])
         /\ obs' = [obs EXCEPT !.settled = IF outcome = "pending" THEN @ ELSE @ \cup {task}]
    /\ pc' = "select"
    /\ UNCHANGED <<agentContexts, agents, loop, config, messages, iteration, retryCount, task, execResult, now, result>>

NextNext == GetNextTask \/ Reprioritise \/ RunNext \/ Settle

NextSpec == NextInit /\ [][NextNext]_vars

----------------------------------------------------------------------------
(* agent-loop.ts: createAgentContext and runAgentLoop. AgentContext objects  *)
(* live in the heap `agents`; callers hold references (heap indices).        *)
(* Message contents are reduced to their kind.                               *)

MaxContexts == 2        \* createAgentContext calls
MaxLoops == 1           \* runAgentLoop calls
MaxLoopIterations == 2  \* largest maxIterations passed to runAgentLoop

AgentMessage(role, content) == [role |-> role, content |-> content]

\* a reference that is already in use: every call hands out the same object
ExistingContextRef(heap) == 1

\* the reference of the object a `return { ... }` literal creates: a new one
NewContextRef(heap) == Len(heap) + 1

\* return { messages: [{ role: 'system', content: SYSTEM_PROMPT }], isLoggedIn: false }
createAgentContext ==
    [messages |-> <<AgentMessage("system", "SYSTEM_PROMPT")>>,
     isLoggedIn |-> FALSE,
     selectedCarer |-> "undefined",
     formStructure |-> "undefined",
     carers |-> "undefined"]

\* replies of openai.chat.completions.create: the call rejects, or returns a
\* text; `done` tells whether the text contains "task complete", "finished" or
\* "done"; `action` is the action of the JSON object in it ("none" when the
\* text holds no JSON object or one that JSON.parse rejects)
AgentActions == {"LOGIN", "GET_CARERS", "SELECT_CARER", "NAVIGATE_TO_FORM", "EXTRACT_FORM",
                 "FILL_FORM", "SUBMIT_FORM", "GET_STATE", "UNKNOWN"}
Completions ==
    {[threw |-> TRUE, done |-> FALSE, action |-> "none", param |-> "undefined"]}
    \cup [threw : {FALSE}, done : BOOLEAN, action : {"none"}, param : {"undefined"}]
    \cup [threw : {FALSE}, done : BOOLEAN, action : AgentActions,
          param : {"undefined", "given"}]

\* parseAgentResponse: null when there is no action
parseAgentResponse(completion) == completion.action

ActionResult(c, success, value, called) ==
    [context |-> c, success |-> success, result |-> value, called |-> called]

\* executeAction(action, params, context); outcome is what the browser routine
\* does: "ok", "fail" (false / an empty list / no sections) or "throw"
executeAction(action, param, c, outcome) ==
    CASE action = "LOGIN" ->
            ActionResult([c EXCEPT !.isLoggedIn = outcome = "ok"], outcome = "ok", "value", TRUE)
      [] action = "GET_CARERS" ->
            IF ~c.isLoggedIn THEN ActionResult(c, FALSE, "null", FALSE)
            ELSE ActionResult([c EXCEPT !.carers = IF outcome = "ok" THEN "[FCC-18]" ELSE "[]"],
                              outcome = "ok", "value", TRUE)
      [] action = "SELECT_CARER" ->
            IF param = "undefined" THEN ActionResult(c, FALSE, "null", FALSE)
            ELSE ActionResult(
                    IF outcome = "ok" /\ c.carers # "undefined"
                    THEN [c EXCEPT !.selectedCarer =
                                      IF c.carers = "[FCC-18]" THEN "FCC-18" ELSE "undefined"]
                    \* carers.find(...) over an empty list is undefined
                    ELSE c,
                    outcome = "ok", "value", TRUE)
      [] action = "NAVIGATE_TO_FORM" -> ActionResult(c, outcome = "ok", "null", TRUE)
      [] action = "EXTRACT_FORM" ->
            ActionResult([c EXCEPT !.formStructure = IF outcome = "ok" THEN "form" ELSE "empty"],
                         outcome = "ok", "value", TRUE)
      [] action = "FILL_FORM" ->
            IF param = "undefined" THEN ActionResult(c, FALSE, "null", FALSE)
            ELSE ActionResult(c, outcome = "ok", "null", TRUE)
      [] action = "SUBMIT_FORM" -> ActionResult(c, outcome = "ok", "value", TRUE)
      [] action = "GET_STATE" -> ActionResult(c, TRUE, "value", TRUE)
      [] OTHER -> ActionResult(c, FALSE, "null", FALSE)

\* the outcomes a browser routine can have for the action
BrowserOutcomes(action) ==
    IF action = "GET_STATE" THEN {"ok", "throw"} ELSE {"ok", "fail", "throw"}

\* ApiResponse {success, data?, error?}
NoApiResponse == [returned |-> FALSE, success |-> FALSE, data |-> "undefined",
                  error |-> "undefined"]
ApiResponse(success, data, error) ==
    [returned |-> TRUE, success |-> success, data |-> data, error |-> error]

Push(heap, ref, role, content) ==
    [heap EXCEPT ![ref].messages = Append(@, AgentMessage(role, content))]

\* a loop test that lets one more iteration through
LoopContinuesOneMore(iter, maxIterations) == iter <= maxIterations

\* while (iteration < maxIterations)
LoopContinues(iter, maxIterations) == iter < maxIterations

AgentInit ==
    /\ config = [maxIterations |-> 0, requireReview |-> FALSE, autoRetry |-> FALSE,
                 retryLimit |-> 0, timeout |-> 0]
    /\ ctx = InitContext
    /\ messages = <<>>
    /\ pc = "agent_idle"
    /\ iteration = 0
    /\ retryCount = 0
    /\ task = 0
    /\ execResult = NoExecResult
    /\ now = 0
    /\ result = NoApiResponse
    /\ agents = <<>>
    /\ agentContexts = NoSessions
    /\ loop = NoLoop
    /\ obs = [handles |-> <<>>,   \* the references createAgentContext returned, in order
              loops |-> 0,        \* runAgentLoop calls made
              given |-> 0,        \* the context passed to the latest runAgentLoop call
              bound |-> 0,        \* the maxIterations passed to it
              reasoning |-> 0,    \* completion calls it has made
              actions |-> 0,      \* executeAction calls it has made
              signal |-> FALSE,   \* the latest step got a completion whose text holds
                                  \* a completion signal
              requested |-> FALSE, \* ... and whose text holds a parsable action
              acted |-> FALSE]    \* the latest step called executeAction

AgentFrame ==
    UNCHANGED <<agentContexts, config, ctx, messages, iteration, retryCount, task, execResult,
                now>>

\* const context = createAgentContext()
CreateAgentContext ==
    /\ pc = "agent_idle"
    /\ Len(obs.handles) < MaxContexts
    /\ LET ref == NewContextRef(agents)
       IN  /\ agents' = IF ref > Len(agents) THEN Append(agents, createAgentContext)
                                             ELSE agents
           /\ obs' = [obs EXCEPT !.handles = Append(@, ref), !.acted = FALSE,
                                 !.signal = FALSE, !.requested = FALSE]
    /\ UNCHANGED <<pc, result, loop>>
    /\ AgentFrame

\* the value runAgentLoop resolves with
AgentReturn(heap, response) ==
    /\ agents' = heap
    /\ result' = response
    /\ loop' = NoLoop
    /\ pc' = "agent_idle"

\* runAgentLoop(userRequest, context, maxIterations) up to its first await
StartAgentLoop ==
    /\ pc = "agent_idle"
    /\ obs.loops < MaxLoops
    /\ \E i \in 1..Len(obs.handles), maxIterations \in 0..MaxLoopIterations :
         LET ref == obs.handles[i]
             heap == Push(agents, ref, "user", "request")
         IN  /\ obs' = [obs EXCEPT !.loops = @ + 1, !.given = ref, !.acted = FALSE,
                                   !.signal = FALSE, !.requested = FALSE,
                                   !.bound = maxIterations,
                                   !.reasoning = IF LoopContinues(0, maxIterations)
                                                 THEN 1 ELSE 0,
                                   !.actions = 0]
             /\ IF LoopContinues(0, maxIterations)
                THEN /\ agents' = heap
                     /\ loop' = [context |-> ref, iteration |-> 1,
                                 maxIterations |-> maxIterations, finalResult |-> "null",
                                 action |-> "none", param |-> "undefined"]
                     /\ pc' = "agent_think"
                     /\ result' = NoApiResponse
                ELSE AgentReturn(heap, ApiResponse(FALSE, "undefined", "Max iterations reached"))
    /\ AgentFrame

\* the completion call resolves: from `await openai.chat.completions.create`
\* to the await in executeAction, or to a return
AgentThink ==
    /\ pc = "agent_think"
    /\ \E completion \in Completions :
         LET heap == Push(agents, loop.context, "assistant", "completion")
         IN  /\ IF completion.threw
                THEN AgentReturn(agents, ApiResponse(FALSE, "undefined", "error"))
                ELSE IF completion.done
                THEN AgentReturn(heap, ApiResponse(TRUE, loop.finalResult, "undefined"))
                ELSE IF parseAgentResponse(completion) = "none"
                THEN AgentReturn(heap, ApiResponse(TRUE,
                                    IF loop.finalResult # "null" THEN loop.finalResult
                                                                  ELSE "message",
                                    "undefined"))
                ELSE /\ agents' = heap
                     /\ loop' = [loop EXCEPT !.action = completion.action,
                                             !.param = completion.param]
                     /\ pc' = "agent_act"
                     /\ result' = result
             /\ obs' = [obs EXCEPT !.acted = FALSE,
                                   !.actions = IF pc' = "agent_act" THEN @ + 1 ELSE @,
                                   !.signal = ~completion.threw /\ completion.done,
                                   !.requested = ~completion.threw
                                       /\ parseAgentResponse(completion) # "none"]
    /\ AgentFrame

\* executeAction resolves: the rest of the iteration and the next loop test
AgentAct ==
    /\ pc = "agent_act"
    /\ \E outcome \in BrowserOutcomes(loop.action) :
         LET actionResult == executeAction(loop.action, loop.param,
                                           agents[loop.context], outcome)
             heap == Push([agents EXCEPT ![loop.context] = actionResult.context],
                          loop.context, "user", "Action result")
         IN  IF actionResult.called /\ outcome = "throw"
             THEN AgentReturn(agents, ApiResponse(FALSE, "undefined", "error"))
             ELSE IF ~actionResult.success /\ loop.action \in {"LOGIN", "SELECT_CARER"}
             THEN AgentReturn(heap, ApiResponse(FALSE, "undefined", "message"))
             ELSE IF LoopContinues(loop.iteration, loop.maxIterations)
             THEN /\ agents' = heap
                  /\ loop' = [loop EXCEPT !.iteration = @ + 1,
                                          !.finalResult = actionResult.result]
                  /\ pc' = "agent_think"
                  /\ result' = result
             ELSE AgentReturn(heap, ApiResponse(FALSE, "undefined", "Max iterations reached"))
    /\ obs' = [obs EXCEPT !.acted = TRUE, !.signal = FALSE, !.requested = FALSE,
                          !.reasoning = IF pc' = "agent_think" THEN @ + 1 ELSE @]
    /\ AgentFrame

AgentNext == CreateAgentContext \/ StartAgentLoop \/ AgentThink \/ AgentAct

AgentSpec == AgentInit /\ [][AgentNext]_vars

\* every awaited call of a running loop resolves or rejects
AgentFairSpec == AgentSpec /\ WF_vars(AgentThink) /\ WF_vars(AgentAct)

----------------------------------------------------------------------------
(* The Executor on its own: any sequence of ExecutorAgent.execute calls, the *)
(* Reasoning Capability choosing any action of the vocabulary (or none, or   *)
(* an unknown one) with any parameters                                       *)

MaxExecutions == 3      \* execute calls
MaxPrevious == 4        \* tasks completed before the calls

CarerCodes == {"undefined", "FCC-18", "FCC-20"}
FormPayloads == {"undefined", "payload", "payload2"}

AllExecutorReplies ==
    {Reply(k, ActionPayload("absent", "undefined", "undefined")) :
        k \in {"throw", "nojson", "malformed", "json"}}
    \cup {Reply("json", ActionPayload(a, "undefined", "undefined")) :
            a \in (Vocabulary \ {"SELECT_CARER", "FILL_FORM"}) \cup {"UNKNOWN"}}
    \cup {Reply("json", ActionPayload("SELECT_CARER", code, "undefined")) : code \in CarerCodes}
    \cup {Reply("json", ActionPayload("FILL_FORM", "undefined", data)) : data \in FormPayloads}

\* the first n tasks of pendingTasks completed, one by one
RECURSIVE CompleteFirst(_, _)
CompleteFirst(c, n) ==
    IF n = 0 THEN c
    ELSE completeTask(CompleteFirst(c, n - 1), TaskId("task", n - 1), TaskResult(TRUE, FALSE))

\* a context holding a plan of n + 1 tasks: the first n are completed, the
\* last one the Orchestrator has marked in_progress
ExecContext(n) ==
    updateTask(CompleteFirst(createPlan(InitContext,
                                        Reply("json", PlanPayload("list", n + 1))).ctx, n),
               TaskId("task", n), [status |-> "in_progress"])

\* no task context gathered
NoTaskContext ==
    [isLoggedIn |-> FALSE, currentPage |-> "undefined", selectedCarer |-> "undefined",
     carers |-> "undefined", formData |-> "undefined", previousResults |-> <<>>]

ExecInit ==
    /\ config = [maxIterations |-> 0, requireReview |-> FALSE, autoRetry |-> FALSE,
                 retryLimit |-> 0, timeout |-> 0]
    /\ \E n \in 0..MaxPrevious : ctx = ExecContext(n) /\ task = n + 1
    /\ messages = <<>>
    /\ pc = "executor"
    /\ iteration = 0
    /\ retryCount = 0
    /\ execResult = NoExecResult
    /\ now = 0
    /\ result = NoWorkflowResult
    /\ agents = <<>>
    /\ agentContexts = NoSessions
    /\ loop = NoLoop
    /\ obs = [steps |-> 0,            \* execute calls made so far
              reply |-> Reply("none", ActionPayload("absent", "undefined", "undefined")),
                                      \* the reasoning reply of the latest call
              outcome |-> "none",     \* what the Automation Capability did in it
              called |-> FALSE,       \* whether the Automation Capability was called
              threw |-> FALSE,        \* whether execute raised an exception
              gathered |-> FALSE,     \* whether the latest call was gatherContext
              context |-> NoTaskContext]  \* what it returned

ExecFrame ==
    UNCHANGED <<agentContexts, agents, loop, config, messages, pc, iteration, retryCount, task, now, result>>

\* const execResult = await this.executor.execute(task)
ExecuteCall ==
    /\ pc = "executor" /\ obs.steps < MaxExecutions
    /\ \E response \in AllExecutorReplies :
       \E outcome \in AutomationOutcomes(response.val.action) :
         LET out == execute(ctx, task, response, outcome)
         IN  /\ ctx' = out.ctx
             /\ execResult' = IF out.threw THEN execResult
                              ELSE [success |-> out.success, actions |-> out.actions]
             /\ obs' = [obs EXCEPT !.steps = @ + 1, !.reply = response,
                                   !.outcome = IF out.called THEN outcome ELSE "none",
                                   !.called = out.called, !.threw = out.threw,
                                   !.gathered = FALSE, !.context = NoTaskContext]
    /\ ExecFrame

\* const taskContext = await this.researcher.gatherContext(task)
GatherContext ==
    /\ pc = "executor"
    /\ ~obs.gathered
    /\ LET out == gatherContextCall(ctx, task)
       IN  /\ ctx' = out.ctx
           /\ obs' = [obs EXCEPT !.gathered = TRUE, !.threw = out.threw,
                                 !.context = out.value]
    /\ UNCHANGED execResult
    /\ ExecFrame

ExecNext == ExecuteCall \/ GatherContext

ExecSpec == ExecInit /\ [][ExecNext]_vars

----------------------------------------------------------------------------
(* app/api/agent/route.ts: a POST request and a follow-up request, handled   *)
(* one after the other. Here `now` is Date.now(); it advances while          *)
(* runAgentLoop is awaited.                                                  *)

MaxRouteIterations == 2   \* iterations of a loop that are explored
DefaultMaxIterations == 10

\* time that passes while runAgentLoop is awaited
RouteTicks == {d \in 0..1 : now + d <= MaxClock}

\* `session_${Date.now()}`
SessionAt(t) == <<"session", t>>

\* the id of line 42, computed again from the clock
SessionIdOfResponse(sessionId, t) == IF sessionId # NoId THEN sessionId ELSE SessionAt(t)

RouteInit ==
    /\ config = [maxIterations |-> 0, requireReview |-> FALSE, autoRetry |-> FALSE,
                 retryLimit |-> 0, timeout |-> 0]
    /\ ctx = InitContext
    /\ messages = <<>>
    /\ pc = "agent_idle"
    /\ iteration = 0
    /\ retryCount = 0
    /\ task = 0
    /\ execResult = NoExecResult
    /\ now = 0
    /\ result = NoApiResponse
    /\ agents = <<>>
    /\ agentContexts = NoSessions
    /\ loop = NoLoop
    /\ obs = [handles |-> <<>>, loops |-> 0, given |-> 0, bound |-> 0, reasoning |-> 0,
              actions |-> 0, signal |-> FALSE, requested |-> FALSE, acted |-> FALSE,
              request |-> "none",   \* the latest request: "first" or "follow-up"
              awaiting |-> FALSE,   \* the latest request awaits runAgentLoop
              sent |-> NoId,        \* the sessionId of the latest request
              fresh |-> FALSE,      \* the latest request created its context
              key |-> NoId,         \* the key under which its context is stored
              responded |-> NoId]   \* the sessionId of the latest response

NextRequest(o) == IF o.request = "none" THEN "first" ELSE "follow-up"

RouteFrame ==
    UNCHANGED <<config, ctx, messages, iteration, retryCount, task, execResult>>

\* POST up to `await runAgentLoop(message, context)`, or to the 400 response
PostReceived ==
    /\ pc = "agent_idle" /\ ~obs.awaiting
    /\ obs.request # "follow-up"
    /\ \E message \in {"", "text"}, sessionId \in SessionIds \cup {NoId} :
         IF message = ""
         THEN /\ result' = ApiResponse(FALSE, "undefined", "Message is required")
              /\ obs' = [obs EXCEPT !.request = NextRequest(obs), !.sent = sessionId, !.fresh = FALSE,
                                    !.key = NoId, !.responded = NoId, !.given = 0,
                                    !.signal = FALSE, !.requested = FALSE, !.acted = FALSE]
              /\ UNCHANGED <<agents, agentContexts, loop, pc>>
         ELSE LET found == IF sessionId # NoId THEN agentContexts[sessionId] ELSE 0
                  context == IF found # 0 THEN found ELSE NewContextRef(agents)
                  heap == IF found # 0 THEN agents ELSE Append(agents, createAgentContext)
                  newSessionId == IF sessionId # NoId THEN sessionId ELSE SessionAt(now)
              IN  /\ agentContexts' = IF found # 0 THEN agentContexts
                                      ELSE [agentContexts EXCEPT ![newSessionId] = context]
                  /\ agents' = Push(heap, context, "user", "request")
                  /\ loop' = [context |-> context, iteration |-> 1,
                              maxIterations |-> DefaultMaxIterations, finalResult |-> "null",
                              action |-> "none", param |-> "undefined"]
                  /\ pc' = "agent_think"
                  /\ result' = NoApiResponse
                  /\ obs' = [obs EXCEPT !.request = NextRequest(obs), !.awaiting = TRUE,
                                        !.sent = sessionId, !.fresh = (found = 0),
                                        !.key = newSessionId, !.responded = NoId,
                                        !.loops = @ + 1, !.given = context,
                                        !.bound = DefaultMaxIterations, !.reasoning = 1,
                                        !.actions = 0, !.signal = FALSE,
                                        !.requested = FALSE, !.acted = FALSE]
    /\ UNCHANGED now
    /\ RouteFrame

\* the completion call of the awaited loop resolves
RouteThink ==
    /\ loop.iteration <= MaxRouteIterations
    /\ AgentThink

\* runAgentLoop has resolved: the response of lines 38-43
PostResponded ==
    /\ pc = "agent_idle" /\ obs.awaiting
    /\ \E d \in RouteTicks :
         /\ now' = now + d
         /\ obs' = [obs EXCEPT !.awaiting = FALSE,
                               !.responded = SessionIdOfResponse(obs.sent, now + d)]
    /\ UNCHANGED <<agents, agentContexts, loop, pc, result>>
    /\ RouteFrame

RouteNext == PostReceived \/ RouteThink \/ AgentAct \/ PostResponded

RouteSpec == RouteInit /\ [][RouteNext]_vars

----------------------------------------------------------------------------
(* Properties *)

RECURSIVE SumTo(_, _)
SumTo(f, n) == IF n = 0 THEN 0 ELSE f[n] + SumTo(f, n - 1)

\* Executor.execute calls made so far in the run
TotalAttempts == SumTo(obs.attempts, 2 * MaxTasks)

\* ids of the tasks a collection holds, in order
IdsOf(c, refs) == [i \in 1..Len(refs) |-> c.tasks[refs[i]].id]

\* number of tasks with the given id in a collection
Occurrences(c, refs, id) == Cardinality({i \in 1..Len(refs) : c.tasks[refs[i]].id = id})

NoDuplicates(s) == \A i, j \in 1..Len(s) : i # j => s[i] # s[j]

StatusesOf(c, refs) == {c.tasks[refs[i]].status : i \in 1..Len(refs)}

TaskIds == {TaskId(prefix, i) : prefix \in {"task", "task-r"}, i \in 0..(MaxTasks - 1)}

NormalReturn == pc = "returned" /\ ~result.error

\* C1: a task whose execution succeeded and whose review was rejected with the
\* retry budget exhausted is never moved to completedTasks; at a normal return
\* it is in pendingTasks with status rejected and WorkflowResult.success is false.
C1_RejectedStaysPending ==
    \A t \in obs.exhausted :
        /\ t \notin Range(ctx.completedTasks)
        /\ NormalReturn =>
              /\ t \in Range(ctx.pendingTasks)
              /\ ctx.tasks[t].status = "rejected"
              /\ ~result.success

\* C2: with autoRetry enabled and retryLimit = N, a task that no review has
\* approved has had at most N + 1 Executor.execute calls, in every state of the
\* run (so it is never attempted an (N + 2)-th time).
C2_RetryBound ==
    \A t \in Refs \ obs.approved :
        config.autoRetry => obs.attempts[t] <= config.retryLimit + 1

\* a run has returned in which a task was executed retryLimit + 1 >= 2 times
\* and rejected every time
C2_Witness ==
    /\ pc = "returned"
    /\ config.autoRetry /\ config.retryLimit >= 1
    /\ \E t \in Refs \ obs.approved :
          /\ obs.attempts[t] = config.retryLimit + 1
          /\ obs.rejections[t] = config.retryLimit + 1

\* C3: when run has returned (normally or through the catch block), the ids of
\* the tasks in completedTasks and pendingTasks are pairwise distinct, so no id
\* occurs in both collections.
C3_DisjointUniqueIds ==
    pc = "returned" => NoDuplicates(IdsOf(ctx, ctx.completedTasks \o ctx.pendingTasks))

\* a run with a revised plan has returned with tasks in both collections
C3_Witness ==
    /\ pc = "returned"
    /\ obs.revised
    /\ Len(ctx.completedTasks) >= 1
    /\ Len(ctx.pendingTasks) >= 1

\* C4 as stated: whenever createPlan returned a zero-task plan (and no
\* exception was raised), no Executor.execute call is made and run returns
\* success = true, completedTasks = 0, totalTasks = 0.
C4_ZeroPlanAsStated ==
    (obs.created = 0 /\ ~obs.fault) =>
        /\ TotalAttempts = 0
        /\ pc = "returned" =>
              result.success /\ result.completedTasks = 0 /\ result.totalTasks = 0

\* C4 amended: if createPlan returned a zero-task plan and the active plan is
\* still empty (review disabled, plan approved, or the revision again yielded
\* no tasks), no Executor.execute call is made, and a normal return carries
\* success = true, completedTasks = 0, totalTasks = 0.
C4_ZeroPlanNotRevised ==
    (obs.created = 0 /\ Len(ctx.currentPlan.tasks) = 0) =>
        /\ TotalAttempts = 0
        /\ NormalReturn =>
              result.success /\ result.completedTasks = 0 /\ result.totalTasks = 0

\* a run returned normally after an empty plan was rejected and revised to an
\* empty plan again
C4_Witness ==
    /\ NormalReturn
    /\ obs.created = 0
    /\ obs.revised
    /\ Len(ctx.currentPlan.tasks) = 0
    /\ result.success

\* C5: at a normal return, WorkflowResult.success is true exactly when
\* pendingTasks is empty; a task left pending, failed or rejected makes it false.
C5_SuccessIffNoPending ==
    NormalReturn =>
        /\ result.success <=> (Len(ctx.pendingTasks) = 0)
        /\ (StatusesOf(ctx, ctx.pendingTasks) \cap {"pending", "failed", "rejected"} # {})
              => ~result.success

\* a run left the loop by timeout with only failed tasks pending, and reports
\* success = false
C5_Witness ==
    /\ NormalReturn
    /\ obs.exit = "timeout"
    /\ StatusesOf(ctx, ctx.pendingTasks) = {"failed"}
    /\ ~result.success

\* C6: the loop performs at most maxIterations iterations and so at most
\* maxIterations Executor.execute calls, retries included, and every run in which
\* each capability call returns eventually returns.
C6_BoundedAndTerminates ==
    /\ [](iteration <= config.maxIterations /\ TotalAttempts <= iteration)
    /\ <>(pc = "returned")

\* a run used up the iteration cap with an Executor.execute call in every
\* iteration
C6_Witness ==
    /\ pc = "returned"
    /\ obs.exit = "cap"
    /\ config.maxIterations >= 2
    /\ TotalAttempts = config.maxIterations

\* C7: at most one task is in flight when the deadline passes or started after
\* it (a retry restarts that same task); a loop left by timeout returns the
\* normal result, whose success tells whether tasks remain pending.
C7_NoSecondTaskAfterDeadline ==
    /\ Cardinality(obs.afterDeadline) <= 1
    /\ (pc = "returned" /\ obs.exit = "timeout") =>
          /\ ~result.error
          /\ result.success <=> (Len(ctx.pendingTasks) = 0)

\* the deadline passed, the loop was left by timeout and a task that was never
\* started remains pending
C7_Witness ==
    /\ pc = "returned"
    /\ obs.exit = "timeout"
    /\ Cardinality(obs.afterDeadline) = 1
    /\ \E i \in 1..Len(ctx.pendingTasks) :
          /\ ctx.tasks[ctx.pendingTasks[i]].status = "pending"
          /\ obs.attempts[ctx.pendingTasks[i]] = 0
    /\ ~result.success

\* C8: no exception reaches the caller of run; once one was raised, run has
\* returned a WorkflowResult with success = false, an error message and the
\* history accumulated up to the fault.
C8_ExceptionsCaught ==
    /\ pc # "propagated"
    /\ obs.fault =>
          /\ pc = "returned"
          /\ ~result.success
          /\ result.error
          /\ result.history = ctx.history

\* an exception was raised in the loop after a task had been completed
C8_Witness ==
    /\ obs.fault
    /\ pc = "returned"
    /\ Len(ctx.completedTasks) >= 1
    /\ Len(result.history) >= 3

C10_MemoryLastWriteWins ==
    /\ \A k \in MemKeys :
          /\ getMemory(ctx, k) = obs.last[k]
          /\ Len(getMemoryItems(ctx, k)) <= 1
    /\ obs.got.value = obs.got.expected

\* a key was rewritten with another value while other keys were present, and
\* getMemory returned the second value
C10_Witness ==
    /\ "carers" \in obs.overwritten
    /\ Len(ctx.memory) >= 2
    /\ obs.last["carers"] = "v2"
    /\ obs.got = [key |-> "carers", value |-> "v2", expected |-> "v2"]

\* C11: with requireReview = false, the step that follows a successful
\* Executor call moves the task to completedTasks with status completed, after
\* exactly one execution of it; and when the plan holds a single task, such a
\* run goes on to return success = true having made exactly one Executor call.
C11_DirectCompletion ==
    /\ [][(pc = "finish" /\ ~config.requireReview /\ execResult.success) =>
             /\ obs.attempts[task] = 1
             /\ task \in Range(ctx'.completedTasks)
             /\ task \notin Range(ctx'.pendingTasks)
             /\ ctx'.tasks[task].status = "completed"]_vars
    /\ (pc = "finish" /\ ~config.requireReview /\ execResult.success
           /\ Len(ctx.currentPlan.tasks) = 1)
          ~> (NormalReturn /\ result.success /\ TotalAttempts = 1
                 /\ StatusesOf(ctx, ctx.completedTasks) = {"completed"})

\* a run without review returned success after the one task of its plan was
\* executed once and completed
C11_Witness ==
    /\ NormalReturn
    /\ ~config.requireReview
    /\ Len(ctx.currentPlan.tasks) = 1
    /\ execResult.success
    /\ TotalAttempts = 1
    /\ Len(ctx.completedTasks) = 1
    /\ result.success

\* number of positions of a collection that hold the task object t
Holds(refs, t) == Cardinality({i \in 1..Len(refs) : refs[i] = t})

\* C12: after any sequence of createPlan, revisePlan, updateTask and
\* completeTask calls, every task of the context (of the active plan or of
\* either collection) is held exactly once by pendingTasks and completedTasks
\* together, also when revisePlan follows the completion of some tasks.
C12_ExactlyOneCollection ==
    \A t \in Range(ctx.currentPlan.tasks) \cup Range(ctx.pendingTasks)
                \cup Range(ctx.completedTasks) :
        Holds(ctx.pendingTasks, t) + Holds(ctx.completedTasks, t) = 1

\* C13: every revisePlan call that returns leaves pendingTasks holding exactly
\* the tasks it built from the parsed reply, in parsed order (task-r-0,
\* task-r-1, ...) and all with status pending, whatever was pending before, and
\* leaves completedTasks as it was.
C13_RevisePlanReplacesPending ==
    [][(obs'.op = "revisePlan" /\ ~obs'.threw) =>
          LET n == Len(ctx'.tasks) - Len(ctx.tasks)
          IN  /\ ctx'.pendingTasks = [i \in 1..n |-> Len(ctx.tasks) + i]
              /\ \A i \in 1..n :
                    /\ ctx'.tasks[Len(ctx.tasks) + i].id = TaskId("task-r", i - 1)
                    /\ ctx'.tasks[Len(ctx.tasks) + i].status = "pending"
              /\ ctx'.completedTasks = ctx.completedTasks]_vars

\* the Reviewer replies that hold no JSON or malformed JSON
UnparsableReviews == {response \in ReviewerReplies : response.kind \in {"nojson", "malformed"}}

C15_CreatePlanToleratesAnyText ==
    (obs.op = "createPlan" /\ obs.text) =>
        /\ ~obs.threw
        /\ ctx.currentPlan.defined
        /\ ctx.pendingTasks = ctx.currentPlan.tasks
        /\ StatusesOf(ctx, ctx.currentPlan.tasks) \subseteq {"pending"}

\* C16: a task whose Executor call returned success = false is not executed
\* again in the run (that call is its last one: every earlier call of it was
\* followed by a rejecting review), is not reviewed, stays in pendingTasks and
\* out of completedTasks, gets status failed at the end of its iteration and
\* keeps it, and is not selected by getNextTask; the task the loop starts next
\* is a task that has not failed.
C16_FailedNeverRerun ==
    /\ [](\A t \in obs.failed :
             /\ obs.attempts[t] = obs.rejections[t] + 1
             /\ t \notin obs.approved
             /\ t \in Range(ctx.pendingTasks)
             /\ t \notin Range(ctx.completedTasks)
             /\ getNextTask(ctx) # t
             /\ IF pc = "finish" /\ task = t
                THEN ctx.tasks[t].status = "in_progress" /\ ~execResult.success
                ELSE ctx.tasks[t].status = "failed"
             /\ pc \in {"execute", "review"} => task # t)
    /\ [][(pc = "finish" /\ task \in obs.failed) =>
             /\ ctx'.tasks[task].status = "failed"
             /\ pc' = IF TimedOut(config, now) THEN "compile" ELSE "loop"]_vars
    /\ [][pc' = "execute" => task' \notin obs.failed]_vars

\* after a task failed, the loop went on to the next pending task, which was
\* executed and completed, and the run returned with the failed task pending
C16_Witness ==
    /\ NormalReturn
    /\ \E t \in obs.failed :
          /\ ctx.tasks[t].status = "failed"
          /\ t \in Range(ctx.pendingTasks)
          /\ \E u \in Range(ctx.completedTasks) : u > t /\ obs.attempts[u] = 1
    /\ ~result.success

\* the status changes of the lifecycle pending -> in_progress ->
\* (approved | rejected | failed) -> completed, with rejected -> pending
LifecycleAsStated ==
    {<<"pending", "in_progress">>, <<"in_progress", "approved">>,
     <<"in_progress", "rejected">>, <<"in_progress", "failed">>,
     <<"approved", "completed">>, <<"rejected", "completed">>,
     <<"failed", "completed">>, <<"rejected", "pending">>}

\* the same without failed -> completed, and with in_progress -> completed
\* when review is disabled
LifecycleOfRun ==
    {<<"pending", "in_progress">>, <<"in_progress", "approved">>,
     <<"in_progress", "rejected">>, <<"in_progress", "failed">>,
     <<"approved", "completed">>, <<"rejected", "completed">>,
     <<"rejected", "pending">>}
    \cup (IF config.requireReview THEN {} ELSE {<<"in_progress", "completed">>})

\* the status writes of a step account for every status it changed: they
\* concern one task, start from its status before the step, chain, and end in
\* its status after the step
WritesAccountForChanges ==
    \A t \in 1..Len(ctx.tasks) :
        ctx'.tasks[t].status # ctx.tasks[t].status =>
            LET w == obs'.writes
            IN  /\ w # <<>>
                /\ \A i \in 1..Len(w) : w[i].task = t
                /\ w[1].from = ctx.tasks[t].status
                /\ \A i \in 1..(Len(w) - 1) : w[i].to = w[i + 1].from
                /\ w[Len(w)].to = ctx'.tasks[t].status

\* C17 as stated: every status write of a run is a change of the lifecycle
\* pending -> in_progress -> (approved | rejected | failed) -> completed or
\* rejected -> pending, so a task reaches completed only from approved,
\* rejected or failed.
C17_LifecycleAsStated ==
    \A i \in 1..Len(obs.writes) :
        <<obs.writes[i].from, obs.writes[i].to>> \in LifecycleAsStated

\* C17 amended: every status write of a run is one of pending -> in_progress,
\* in_progress -> approved | rejected | failed, approved -> completed,
\* rejected -> completed, rejected -> pending (the only way back) and, when
\* requireReview is false, in_progress -> completed; tasks are created
\* pending, and a task that is completed or failed keeps its status.
C17_Lifecycle ==
    /\ [](\A i \in 1..Len(obs.writes) :
             <<obs.writes[i].from, obs.writes[i].to>> \in LifecycleOfRun)
    /\ [][WritesAccountForChanges]_vars
    /\ [][\A t \in 1..Len(ctx.tasks) :
             ctx.tasks[t].status \in {"completed", "failed"} =>
                 ctx'.tasks[t].status = ctx.tasks[t].status]_vars
    /\ [][\A t \in (Len(ctx.tasks) + 1)..Len(ctx'.tasks) :
             ctx'.tasks[t].status = "pending"]_vars

\* a task has just been rejected and set back to pending for a retry, after
\* another task went through approved to completed
C17_Witness ==
    /\ Len(obs.writes) = 2
    /\ <<obs.writes[1].from, obs.writes[1].to>> = <<"in_progress", "rejected">>
    /\ <<obs.writes[2].from, obs.writes[2].to>> = <<"rejected", "pending">>
    /\ ctx.tasks[task].status = "pending"
    /\ \E u \in Range(ctx.completedTasks) : u \in obs.approved

\* positions of pendingTasks whose task has status pending or approved
Runnable(c) ==
    {i \in 1..Len(c.pendingTasks) :
        c.tasks[c.pendingTasks[i]].status \in {"pending", "approved"}}

\* C18: getNextTask returns the first task of pendingTasks, in list order,
\* whose status is pending or approved, and none when there is no such task;
\* giving any task another priority and other dependencies does not change
\* what it returns; and a call returns that task and leaves the context as
\* it was.
C18_FirstPendingOrApproved ==
    /\ [](IF Runnable(ctx) = {}
          THEN getNextTask(ctx) = 0
          ELSE \E i \in Runnable(ctx) :
                  /\ \A j \in Runnable(ctx) : i <= j
                  /\ getNextTask(ctx) = ctx.pendingTasks[i])
    /\ [](\A t \in 1..Len(ctx.tasks), priority \in Priorities,
             dependencies \in Dependencies :
             getNextTask([ctx EXCEPT !.tasks[t].priority = priority,
                                     !.tasks[t].dependencies = dependencies])
                = getNextTask(ctx))
    /\ [](obs.called => obs.got = getNextTask(ctx))
    /\ [][obs'.called => ctx' = ctx]_vars

\* getNextTask returned the second task, approved, of low priority and
\* depending on the first, which is of high priority and in progress
C18_Witness ==
    /\ obs.called
    /\ Len(ctx.pendingTasks) = 2
    /\ ctx.tasks[1].status = "in_progress" /\ ctx.tasks[1].priority = "high"
    /\ ctx.tasks[2].status = "approved" /\ ctx.tasks[2].priority = "low"
    /\ ctx.tasks[2].dependencies = {TaskId("task", 0)}
    /\ obs.got = 2

C20_SingleCorrectivePass ==
    /\ [](obs.reviewPlanCalls <= 1 /\ obs.revisePlanCalls <= 1)
    /\ [][obs'.revisePlanCalls # obs.revisePlanCalls =>
             /\ pc = "revise_plan"
             /\ obs.planVerdict = "rejected"
             /\ obs.reviewPlanCalls = 1
             /\ iteration = 0]_vars
    /\ [][obs.revisePlanCalls >= 1 => obs'.reviewPlanCalls = obs.reviewPlanCalls]_vars
    /\ [][iteration >= 1 =>
             /\ ctx'.currentPlan = ctx.currentPlan
             /\ obs'.revisePlanCalls = obs.revisePlanCalls
             /\ obs'.created = obs.created]_vars

\* a run whose plan was rejected and revised once has executed tasks of the
\* revised plan and returned
C20_Witness ==
    /\ NormalReturn
    /\ obs.planVerdict = "rejected"
    /\ obs.reviewPlanCalls = 1
    /\ obs.revisePlanCalls = 1
    /\ TotalAttempts >= 2
    /\ \E t \in Range(ctx.completedTasks) : ctx.tasks[t].id = TaskId("task-r", 0)

\* whether pendingTasks holds a task with the given id
InPending(c, id) == \E i \in 1..Len(c.pendingTasks) : c.tasks[c.pendingTasks[i]].id = id

\* C21: for an id that is not in pendingTasks (whether or not it is in
\* completedTasks) updateTask and completeTask return the context as it was,
\* and for a key that is not in memory getMemory returns undefined; and every
\* updateTask, completeTask or getMemory call whose target was absent raised
\* no error and left the whole context unchanged.
C21_AbsentTargetsNoOp ==
    /\ [](\A id \in TaskIds :
             ~InPending(ctx, id) =>
                 /\ completeTask(ctx, id, TaskResult(TRUE, FALSE)) = ctx
                 /\ \A status \in UpdateStatuses :
                       updateTask(ctx, id, [status |-> status]) = ctx)
    /\ [](\A k \in MemKeys :
             getMemoryItems(ctx, k) = <<>> => getMemory(ctx, k) = "undefined")
    /\ [][(obs'.op \in {"updateTask", "completeTask", "getMemory"} /\ ~obs'.found) =>
             /\ ~obs'.threw
             /\ ctx' = ctx
             /\ obs'.op = "getMemory" => obs'.got = "undefined"]_vars

\* a call whose target was absent has just been made on a context that holds
\* a completed task task-0, a pending task and a memory item: task-0 is not
\* in pendingTasks, and updating or completing it changes nothing
C21_Witness ==
    /\ obs.op \in {"updateTask", "completeTask"}
    /\ ~obs.found
    /\ Len(ctx.completedTasks) = 1
    /\ ctx.tasks[ctx.completedTasks[1]].id = TaskId("task", 0)
    /\ ~InPending(ctx, TaskId("task", 0))
    /\ Len(ctx.pendingTasks) >= 1
    /\ Len(ctx.memory) = 1
    /\ getMemory(ctx, "notes") = "undefined"

\* C22: every context createAgentContext returns is in the same initial state
\* (exactly one message, of role system; isLoggedIn false; carers,
\* selectedCarer and formStructure undefined), and successive calls return
\* independent contexts: no two calls return the same object, and a step of
\* runAgentLoop changes no context but the one it was given.
Returned(o) == o.handles[Len(o.handles)]
CreateReturned == Len(obs'.handles) = Len(obs.handles) + 1
C22_FreshIndependentContexts ==
    /\ [][CreateReturned =>
            LET context == agents'[Returned(obs')]
            IN  /\ Len(context.messages) = 1
                /\ context.messages[1].role = "system"
                /\ context.isLoggedIn = FALSE
                /\ context.carers = "undefined"
                /\ context.selectedCarer = "undefined"
                /\ context.formStructure = "undefined"
                /\ context = createAgentContext
                /\ \A i \in 1..Len(obs.handles) : obs.handles[i] # Returned(obs')
                /\ \A h \in 1..Len(agents) : agents'[h] = agents[h]]_vars
    /\ [][~CreateReturned =>
            \A h \in 1..Len(agents) :
                h # obs'.given => agents'[h] = agents[h]]_vars
    /\ [](\A i, j \in 1..Len(obs.handles) : i # j => obs.handles[i] # obs.handles[j])
C22_Witness ==
    /\ Len(obs.handles) = 2
    /\ obs.loops = 1
    /\ obs.given = obs.handles[1]
    /\ pc = "agent_idle"
    /\ agents[obs.handles[1]].isLoggedIn
    /\ Len(agents[obs.handles[1]].messages) > 1
    /\ agents[obs.handles[2]] = createAgentContext

\* C23: whenever a task is completed the retry counter is reset to zero, so
\* that every task starts with the full retry budget: when a task is executed
\* for the first time the counter is zero, also after a task that exhausted
\* its retries.
Completes == pc = "finish" /\ execResult.success /\ pc' # "finish"
FirstAttempt == pc = "execute" /\ obs.attempts[task] = 0
C23_CounterResetOnCompletion ==
    /\ [][Completes => retryCount' = 0]_vars
    /\ [](FirstAttempt => retryCount = 0)

\* C24: after a retried rejection the task is reset to pending in place (same
\* object, same position of pendingTasks, nothing else of the context
\* changed but its status and the history), and the very next task executed
\* is that same task.
Retried == pc = "loop" /\ Len(obs.writes) = 2
RetryStep == pc = "review" /\ pc' = "loop"
C24_RetryRunsSameTaskNext ==
    /\ [][RetryStep =>
            /\ Retried'
            /\ task' = task
            /\ ctx'.pendingTasks = ctx.pendingTasks
            /\ ctx'.completedTasks = ctx.completedTasks
            /\ ctx'.tasks[task].status = "pending"
            /\ \A t \in DOMAIN ctx.tasks : t # task => ctx'.tasks[t] = ctx.tasks[t]]_vars
    /\ [](Retried => getNextTask(ctx) = task)
    /\ [][(Retried /\ pc' = "execute") =>
            task' = task /\ ctx'.tasks[task].status = "in_progress"]_vars
C24_Witness ==
    /\ pc = "execute"
    /\ Len(obs.writes) = 1
    /\ obs.rejections[task] = 1
    /\ obs.attempts[task] = 1
    /\ Len(ctx.pendingTasks) = 2
    /\ ctx.pendingTasks[2] = task
    /\ ctx.tasks[ctx.pendingTasks[1]].status = "failed"

\* C25: the timeout is sampled at the end of every iteration, including one
\* that ends in a retry: once the elapsed time exceeds the timeout at the end
\* of an iteration, no further Executor.execute call starts, neither for a
\* new task nor for a retry.
IterationEnded == pc = "loop" /\ iteration >= 1
C25_NoExecuteAfterTimeout ==
    [][(IterationEnded /\ TimedOut(config, now)) => pc' # "execute"]_vars

\* C26: every change of a task's status to approved or rejected is made by
\* Reviewer.reviewTaskResult: it happens only in the review step, on the task
\* under review, with the verdict reviewTaskResult computes; the Planner
\* creates tasks as pending, and the writes of the Orchestrator and the
\* Executor are never approved or rejected.
Verdicts == {"approved", "rejected"}
VerdictOf(response) == reviewTaskResult(ctx, task, response).ctx.tasks[task].status
C26_OnlyReviewerJudges ==
    /\ [][WritesAccountForChanges]_vars
    /\ [][\A t \in DOMAIN ctx'.tasks :
            (/\ ctx'.tasks[t].status \in Verdicts
             /\ t \in DOMAIN ctx.tasks => ctx.tasks[t].status # ctx'.tasks[t].status)
            => /\ pc = "review"
               /\ t = task
               /\ \E response \in ReviewerReplies : ctx'.tasks[t].status = VerdictOf(response)]_vars
    /\ [][(pc # "review" /\ obs'.writes # obs.writes) =>
            \A i \in 1..Len(obs'.writes) : obs'.writes[i].to \notin Verdicts]_vars
    /\ [][(pc = "review" /\ obs'.writes # obs.writes) =>
            /\ obs'.writes[1].task = task
            /\ \E response \in ReviewerReplies : obs'.writes[1].to = VerdictOf(response)
            /\ \A i \in 2..Len(obs'.writes) : obs'.writes[i].to \notin Verdicts]_vars
C26_Witness ==
    /\ pc = "finish"
    /\ ctx.tasks[task].status = "rejected"
    /\ obs.writes = <<[task |-> task, from |-> "in_progress", to |-> "rejected"]>>
    /\ Len(ctx.completedTasks) = 1
    /\ ctx.completedTasks[1] \in obs.approved

\* C27: reviewTaskResult is invoked only when requireReview is true and the
\* Executor.execute call of the same iteration, for the same task, returned
\* success = true; with requireReview = false neither reviewPlan nor
\* reviewTaskResult is ever invoked.
ReviewSteps == {"review_plan", "revise_plan", "review"}
C27_ReviewOnlyAfterSuccess ==
    /\ [][pc' = "review" =>
            /\ pc = "execute"
            /\ task' = task
            /\ iteration' = iteration
            /\ obs'.attempts[task] = obs.attempts[task] + 1
            /\ execResult'.success
            /\ config.requireReview]_vars
    /\ [](pc = "review" => config.requireReview /\ execResult.success /\ task \notin obs.failed)
    /\ [](~config.requireReview =>
            /\ pc \notin ReviewSteps
            /\ obs.reviewPlanCalls = 0
            /\ obs.planVerdict = "none"
            /\ obs.approved = {}
            /\ \A r \in Refs : obs.rejections[r] = 0
            /\ \A i \in 1..Len(ctx.history) : ctx.history[i].agent # "reviewer")
C27_Witness ==
    /\ pc = "review"
    /\ obs.failed # {}
    /\ obs.attempts[task] = 1

\* C28: when a task's execution fails, exactly one message of type error from
\* executor to planner is appended to the message list, and nothing else
\* follows from it: revisePlan is not invoked, and currentPlan and the members
\* and order of pendingTasks are unchanged (the task stays where it is, with
\* status failed). No other step sends a message.
FailureHandled == pc = "finish" /\ ~execResult.success /\ pc' # "finish"
C28_FailureOnlyNotifies ==
    /\ [][FailureHandled =>
            /\ messages' = Append(messages, [from |-> "executor", to |-> "planner",
                                             type |-> "error"])
            /\ ctx'.currentPlan = ctx.currentPlan
            /\ ctx'.pendingTasks = ctx.pendingTasks
            /\ ctx'.completedTasks = ctx.completedTasks
            /\ ctx'.tasks[task].status = "failed"
            /\ \A t \in DOMAIN ctx.tasks : t # task => ctx'.tasks[t] = ctx.tasks[t]
            /\ obs'.revisePlanCalls = obs.revisePlanCalls
            /\ pc' \in {"loop", "compile"}]_vars
    /\ [][messages' # messages => FailureHandled]_vars
    /\ [](pc = "revise_plan" => iteration = 0 /\ obs.failed = {})
    /\ [](obs.failed # {} => obs.revisePlanCalls <= 1 /\ ~(pc = "revise_plan"))
    /\ [](Len(messages) = Cardinality(obs.failed)
                          - (IF pc = "finish" /\ ~execResult.success THEN 1 ELSE 0))
C28_Witness ==
    /\ pc = "loop"
    /\ Len(messages) = 1
    /\ Len(ctx.pendingTasks) = 2
    /\ ctx.tasks[ctx.pendingTasks[1]].status = "failed"
    /\ ctx.tasks[ctx.pendingTasks[2]].status = "pending"
    /\ obs.failed = {ctx.pendingTasks[1]}

\* C29: dependencies and priority do not constrain scheduling. Tasks are
\* executed strictly in pendingTasks order: the task an iteration executes is
\* the same whatever priorities and dependencies the tasks declare, every
\* entry ahead of it in pendingTasks is not runnable, and no entry behind it
\* has been executed before. A run can reach a state in which a task is
\* executed while a task it declares as a dependency is not completed, for
\* instance after that prerequisite failed (C29_Witness).
PositionOf(c, t) == FindIndex([i \in 1..Len(c.pendingTasks) |-> c.pendingTasks[i] = t])
Starts == pc = "select" /\ pc' = "running"
C29_PendingOrderOnly ==
    /\ [][Starts =>
            /\ PositionOf(ctx, task') > 0
            /\ \A i \in 1..Len(ctx.pendingTasks) :
                 /\ i < PositionOf(ctx, task') =>
                       ctx.tasks[ctx.pendingTasks[i]].status \notin {"pending", "approved"}
                 /\ i > PositionOf(ctx, task') => ctx.pendingTasks[i] \notin obs.ran
            /\ \A t \in 1..Len(ctx.tasks), priority \in Priorities,
                  dependencies \in Dependencies :
                 task' = getNextTask([ctx EXCEPT !.tasks[t].priority = priority,
                                                 !.tasks[t].dependencies = dependencies])]_vars
    /\ [][ctx'.pendingTasks # ctx.pendingTasks =>
            /\ pc = "running"
            /\ ctx'.pendingTasks = RemoveAt(ctx.pendingTasks, PositionOf(ctx, task))]_vars
C29_Witness ==
    /\ pc = "running"
    /\ task = 2
    /\ ctx.tasks[2].dependencies = {TaskId("task", 0)}
    /\ ctx.tasks[1].id = TaskId("task", 0)
    /\ ctx.tasks[1].status = "failed"
    /\ 1 \in obs.settled
    /\ ctx.completedTasks = <<>>
    /\ ctx.tasks[1].priority = "low" /\ ctx.tasks[2].priority = "low"

\* C30: when the Executor's reasoning response yields no action (no JSON in
\* it, JSON that does not parse, or no `action` member), execute returns
\* success = false with an empty actions list, makes no Automation Capability
\* call and changes neither the state nor the memory (nor any task); the
\* Orchestrator then marks the task failed, without a review.
NoActionReplies ==
    {response \in ExecutorReplies :
        response.kind # "throw" /\ (~parseJson(response).ok \/ response.val.action = "absent")}
NoActionExecuted == pc \in {"execute", "finish"} /\ pc' # pc /\ execResult'.actions = 0
                    /\ pc' \in {"review", "finish", "loop", "compile"}
C30_NoActionFails ==
    /\ [](pc = "execute" =>
            \A response \in NoActionReplies, outcome \in {"ok", "fail", "throw"} :
                LET out == execute(ctx, task, response, outcome)
                IN  /\ ~out.threw
                    /\ ~out.success
                    /\ out.actions = 0
                    /\ ~out.called
                    /\ out.ctx.state = ctx.state
                    /\ out.ctx.memory = ctx.memory
                    /\ out.ctx.tasks = ctx.tasks
                    /\ out.ctx.pendingTasks = ctx.pendingTasks
                    /\ out.ctx.completedTasks = ctx.completedTasks)
    /\ [](pc = "execute" =>
            \A response \in ExecutorReplies \ NoActionReplies :
                response.kind # "throw" => execute(ctx, task, response, "ok").actions = 1)
    /\ [][(NoActionExecuted /\ pc = "execute") =>
            /\ pc' = "finish"
            /\ ~execResult'.success
            /\ ctx'.state = ctx.state
            /\ ctx'.memory = ctx.memory
            /\ ctx'.tasks = ctx.tasks]_vars
    /\ [][(NoActionExecuted /\ pc = "finish") =>
            /\ ctx'.tasks[task].status = "failed"
            /\ task \in obs.failed
            /\ task \notin obs.approved
            /\ obs.rejections[task] = obs'.rejections[task]]_vars
C30_Witness ==
    /\ pc = "loop"
    /\ task > 0
    /\ obs.attempts[task] = 1
    /\ execResult.actions = 0
    /\ ctx.tasks[task].status = "failed"
    /\ ctx.state.isLoggedIn
    /\ config.requireReview
    /\ Len(ctx.completedTasks) = 1
    /\ Len(messages) = 1

\* C31: a FILL_FORM action that carries a payload writes that payload to
\* memory under the key formData before the fill is attempted, so afterwards
\* getMemory('formData') is the supplied payload whether the fill succeeds,
\* returns false, or throws.
Executed == obs'.steps = obs.steps + 1 /\ ~obs'.threw
Requested(o, action) == o.reply.kind = "json" /\ o.reply.val.action = action
C31_PayloadRecordedBeforeFill ==
    /\ [](\A data \in FormPayloads \ {"undefined"}, outcome \in AutomationOutcomes("FILL_FORM") :
            LET out == performAction(ctx, "FILL_FORM",
                                     ActionPayload("FILL_FORM", "undefined", data), outcome)
            IN  /\ getMemory(out.ctx, "formData") = data
                /\ Len(getMemoryItems(out.ctx, "formData")) = 1
                /\ out.called
                /\ out.success = (outcome = "ok"))
    /\ [][(Executed /\ Requested(obs', "FILL_FORM") /\ obs'.reply.val.formData # "undefined") =>
            /\ obs'.called
            /\ obs'.outcome \in AutomationOutcomes("FILL_FORM")
            /\ getMemory(ctx', "formData") = obs'.reply.val.formData
            /\ execResult'.success = (obs'.outcome = "ok")
            /\ ctx'.state = ctx.state]_vars
C31_Witness ==
    /\ obs.steps = 3
    /\ Requested(obs, "FILL_FORM")
    /\ obs.reply.val.formData = "payload2"
    /\ obs.outcome = "throw"
    /\ ~execResult.success
    /\ getMemory(ctx, "formData") = "payload2"
    /\ getMemory(ctx, "carers") = "[FCC-18]"
    /\ Len(ctx.memory) = 2

\* C32: state.selectedCarer changes only through a SELECT_CARER action whose
\* automation call succeeded, and then equals the requested carer code; a
\* SELECT_CARER that fails, throws, or lacks a carer code leaves the state
\* unchanged.
C32_SelectedCarerOnlyOnSuccess ==
    /\ [][ctx'.state.selectedCarer # ctx.state.selectedCarer =>
            /\ Executed
            /\ Requested(obs', "SELECT_CARER")
            /\ obs'.called /\ obs'.outcome = "ok"
            /\ ctx'.state.selectedCarer = obs'.reply.val.carerCode]_vars
    /\ [][(Executed /\ Requested(obs', "SELECT_CARER")) =>
            IF obs'.reply.val.carerCode # "undefined" /\ obs'.outcome = "ok"
            THEN /\ ctx'.state = [ctx.state EXCEPT !.selectedCarer = obs'.reply.val.carerCode]
                 /\ execResult'.success
            ELSE /\ ctx'.state = ctx.state
                 /\ ~execResult'.success
                 /\ obs'.called = (obs'.reply.val.carerCode # "undefined")]_vars
C32_Witness ==
    /\ Requested(obs, "SELECT_CARER")
    /\ obs.reply.val.carerCode = "FCC-18"
    /\ obs.outcome = "throw"
    /\ ctx.state.selectedCarer = "FCC-20"
    /\ ctx.state.isLoggedIn

\* C33: Researcher.gatherContext is a pure read: it leaves the entire Shared
\* Context unchanged (state, memory, plan, both task collections and history)
\* and never fails; what it returns is read from the context, with undefined
\* or empty fields for absent data.
Gathers == obs'.gathered /\ ~obs.gathered
AsGathered(c, value) ==
    /\ value.isLoggedIn = c.state.isLoggedIn
    /\ value.currentPage = c.state.currentPage
    /\ value.selectedCarer = c.state.selectedCarer
    /\ value.carers = (IF getMemoryItems(c, "carers") = <<>> THEN "undefined"
                       ELSE getMemoryItems(c, "carers")[1].value)
    /\ value.formData = "undefined"
    /\ Len(value.previousResults) = (IF Len(c.completedTasks) > 3 THEN 3
                                     ELSE Len(c.completedTasks))
    /\ \A i \in 1..Len(value.previousResults) :
          value.previousResults[i] =
              c.tasks[c.completedTasks[Len(c.completedTasks)
                                        - Len(value.previousResults) + i]].result
C33_GatherContextPureRead ==
    /\ [](LET out == gatherContextCall(ctx, task)
          IN  ~out.threw /\ out.ctx = ctx /\ AsGathered(ctx, out.value))
    /\ [][Gathers =>
            /\ ctx' = ctx
            /\ ~obs'.threw
            /\ AsGathered(ctx, obs'.context)
            /\ UNCHANGED <<messages, execResult, task>>]_vars
C33_Witness ==
    /\ obs.gathered
    /\ obs.steps = 2
    /\ Len(ctx.completedTasks) = 4
    /\ Len(obs.context.previousResults) = 3
    /\ obs.context.carers = "[FCC-18]"
    /\ obs.context.selectedCarer = "undefined"
    /\ obs.context.currentPage = "undefined"
    /\ getMemory(ctx, "formData") = "payload"
    /\ obs.context.formData = "undefined"

\* C34: task processing is strictly sequential: at every point of a run at
\* most one task has status in_progress (the task being processed), and no
\* task's execution begins before the previous task's execution, review and
\* context update have finished, leaving that task completed, failed or
\* pending again.
InProgress(c) == {t \in 1..Len(c.tasks) : c.tasks[t].status = "in_progress"}
C34_OneTaskAtATime ==
    /\ [](Cardinality(InProgress(ctx)) <= 1)
    /\ [](pc \in {"execute", "review", "finish"} => InProgress(ctx) \subseteq {task})
    /\ [](pc \in {"loop", "compile"} => InProgress(ctx) = {})
    /\ [][pc' = "execute" =>
            /\ pc = "loop"
            /\ InProgress(ctx) = {}
            /\ InProgress(ctx') = {task'}
            /\ task > 0 => ctx.tasks[task].status \in {"completed", "failed", "pending"}]_vars
C34_Witness ==
    /\ pc = "execute"
    /\ iteration = 2
    /\ InProgress(ctx) = {task}
    /\ Len(ctx.completedTasks) = 1
    /\ ctx.tasks[ctx.completedTasks[1]].status = "completed"
    /\ obs.attempts[task] = 0

\* C35: when run returns normally, every task still in pendingTasks has
\* status pending or failed (none is left in_progress, approved or rejected),
\* and every task in completedTasks has status completed with
\* result.success = true.
C35_SettledAtReturn ==
    NormalReturn =>
        /\ \A i \in 1..Len(ctx.pendingTasks) :
              ctx.tasks[ctx.pendingTasks[i]].status \in {"pending", "failed"}
        /\ \A i \in 1..Len(ctx.completedTasks) :
              /\ ctx.tasks[ctx.completedTasks[i]].status = "completed"
              /\ ctx.tasks[ctx.completedTasks[i]].result.defined
              /\ ctx.tasks[ctx.completedTasks[i]].result.success
C35_Witness ==
    /\ NormalReturn
    /\ Len(ctx.pendingTasks) = 1
    /\ Len(ctx.completedTasks) = 1
    /\ ctx.tasks[ctx.pendingTasks[1]].status = "pending"
    /\ ctx.completedTasks[1] \in obs.exhausted
    /\ obs.exit = "cap"

\* C36: tasks are conserved through a run: at a normal return
\* completedTasks.length + pendingTasks.length equals totalTasks, the task
\* count of the active plan, so the reported completedTasks never exceeds
\* totalTasks, and the two collections together hold every task of the active
\* plan exactly once (none lost, none duplicated).
C36_TasksConserved ==
    NormalReturn =>
        /\ Len(ctx.completedTasks) + Len(ctx.pendingTasks) = result.totalTasks
        /\ result.totalTasks = Len(ctx.currentPlan.tasks)
        /\ result.completedTasks = Len(ctx.completedTasks)
        /\ result.completedTasks <= result.totalTasks
        /\ \A t \in 1..Len(ctx.tasks) :
              Holds(ctx.completedTasks \o ctx.pendingTasks, t) = Holds(ctx.currentPlan.tasks, t)
        /\ NoDuplicates(ctx.currentPlan.tasks)
C36_Witness ==
    /\ NormalReturn
    /\ obs.revised
    /\ result.totalTasks = 2
    /\ result.completedTasks = 1
    /\ Len(ctx.pendingTasks) = 1
    /\ Len(ctx.tasks) = 4

\* C37: runAgentLoop always terminates within its bound: it makes at most
\* maxIterations reasoning calls and executes at most maxIterations actions,
\* every call whose awaited calls resolve returns, and if no completion
\* signal, action-less response, critical failure or exception ends it
\* earlier it returns {success: false, error: 'Max iterations reached'}, after
\* exactly maxIterations reasoning calls and actions.
Running == pc \in {"agent_think", "agent_act"}
MaxIterationsReached == ApiResponse(FALSE, "undefined", "Max iterations reached")
C37_LoopBounded ==
    /\ [](obs.reasoning <= obs.bound /\ obs.actions <= obs.reasoning)
    /\ [](Running => /\ loop.iteration = obs.reasoning
                     /\ loop.maxIterations = obs.bound
                     /\ loop.iteration <= loop.maxIterations)
    /\ [](result = MaxIterationsReached =>
            obs.reasoning = obs.bound /\ obs.actions = obs.bound)
    /\ [][(pc = "agent_act" /\ pc' = "agent_idle" /\ result'.error \notin {"error", "message"}) =>
            result' = MaxIterationsReached]_vars
    /\ [](Running => <>(pc = "agent_idle" /\ result.returned))
C37_Witness ==
    /\ pc = "agent_idle"
    /\ result = MaxIterationsReached
    /\ obs.bound = 2
    /\ obs.reasoning = 2
    /\ obs.actions = 2
    /\ agents[obs.given].isLoggedIn
    /\ Len(agents[obs.given].messages) = 6

\* C38: in runAgentLoop an assistant response that carries a parsable action
\* is always executed: the loop ends with success on a completion signal only
\* for a plain-text completion message, never for a response that also
\* contains an action, so no requested action is skipped.
C38_RequestedActionExecuted ==
    /\ [][(pc = "agent_think" /\ obs'.requested) => pc' = "agent_act"]_vars
    /\ [](pc = "agent_idle" /\ result.returned /\ result.success /\ obs.signal => ~obs.requested)

\* C39: for POST /api/agent, the sessionId returned in the response is the
\* key under which that request's agent context is stored, so a follow-up
\* request carrying the returned sessionId resumes the same context (the same
\* object, with the message history and login flag the first request left)
\* instead of a fresh one, also when the first request supplied no sessionId.
Responded == pc = "agent_idle" /\ ~obs.awaiting /\ obs.responded # NoId
C39_ReturnedSessionIdResumes ==
    /\ [](Responded => obs.responded = obs.key /\ agentContexts[obs.responded] = obs.given)
    /\ [][(Responded /\ obs'.request = "follow-up" /\ obs.request = "first"
             /\ obs'.awaiting /\ obs'.sent = obs.responded) =>
            /\ ~obs'.fresh
            /\ obs'.given = obs.given
            /\ agents' = Push(agents, obs.given, "user", "request")
            /\ agents'[obs'.given].isLoggedIn = agents[obs.given].isLoggedIn]_vars

====
